---- MODULE Spec2Model ----
(***************************************************************************)
(* A model of the query-matching kernel of ldap-mock: the filter parser    *)
(* (filter.go), the attribute evaluator (filter.go), the structural        *)
(* comparator and rule dispatcher (rule_engine.go) and the search handler  *)
(* of the LDAP server (ldap_server.go).                                    *)
(*                                                                         *)
(* Go strings are modelled as sequences of one-character strings, so that  *)
(* parsing, case folding and splitting are computed character by           *)
(* character as the code computes them.                                    *)
(***************************************************************************)
EXTENDS Integers, Sequences, FiniteSets, TLC

VARIABLES usersMock, logger, search, call

vars == <<usersMock, logger, search, call>>

(***************************************************************************)
(* Strings                                                                 *)
(***************************************************************************)
UpperCase == <<"A","B","C","D","E","F","G","H","I","J","K","L","M",
               "N","O","P","Q","R","S","T","U","V","W","X","Y","Z">>

LowerCase == <<"a","b","c","d","e","f","g","h","i","j","k","l","m",
               "n","o","p","q","r","s","t","u","v","w","x","y","z">>

ToLowerChar(c) ==
    IF \E i \in DOMAIN UpperCase : UpperCase[i] = c
    THEN LowerCase[CHOOSE i \in DOMAIN UpperCase : UpperCase[i] = c]
    ELSE c

ToLower(s) == [i \in 1..Len(s) |-> ToLowerChar(s[i])]

EqualFold(s, t) == ToLower(s) = ToLower(t)

Contains(s, c) == \E i \in 1..Len(s) : s[i] = c

HasPrefix(s, p) == Len(p) <= Len(s) /\ SubSeq(s, 1, Len(p)) = p

HasSuffix(s, p) == Len(p) <= Len(s) /\ SubSeq(s, Len(s) - Len(p) + 1, Len(s)) = p

\* strings.Index: the 0-based offset of the first occurrence of p in s, -1 if none
Index(s, p) ==
    IF \E k \in 0..(Len(s) - Len(p)) : SubSeq(s, k + 1, k + Len(p)) = p
    THEN CHOOSE k \in 0..(Len(s) - Len(p)) :
             /\ SubSeq(s, k + 1, k + Len(p)) = p
             /\ \A m \in 0..(k - 1) : SubSeq(s, m + 1, m + Len(p)) # p
    ELSE -1

\* The white space of the model's characters
WhiteSpace == {" ", "\n"}

RECURSIVE TrimLeft(_)
TrimLeft(s) == IF s # <<>> /\ Head(s) \in WhiteSpace THEN TrimLeft(Tail(s)) ELSE s

RECURSIVE TrimRight(_)
TrimRight(s) ==
    IF s # <<>> /\ s[Len(s)] \in WhiteSpace
    THEN TrimRight(SubSeq(s, 1, Len(s) - 1))
    ELSE s

TrimSpace(s) == TrimRight(TrimLeft(s))

\* strings.Split(s, sep) for a one-character separator: always at least one part
RECURSIVE Split(_, _)
Split(s, sep) ==
    IF ~Contains(s, sep) THEN <<s>>
    ELSE LET i == CHOOSE k \in 1..Len(s) :
                      s[k] = sep /\ \A m \in 1..(k - 1) : s[m] # sep
         IN  <<SubSeq(s, 1, i - 1)>> \o Split(SubSeq(s, i + 1, Len(s)), sep)

(***************************************************************************)
(* filter.go: the filter tree and its parser                               *)
(***************************************************************************)
FilterAnd == "And"
FilterOr == "Or"
FilterNot == "Not"
FilterEqual == "Equal"
FilterApprox == "Approx"
FilterGreaterOrEqual == "GreaterOrEqual"
FilterLessOrEqual == "LessOrEqual"
FilterPresent == "Present"
FilterSubstring == "Substring"

\* The Filter struct with every field at its zero value but Type
Filter(type) ==
    [Type |-> type, Attr |-> <<>>, Value |-> <<>>, Children |-> <<>>,
     Initial |-> <<>>, Any |-> <<>>, Final |-> <<>>]

\* (*Filter, error) return values
Ok(f) == [err |-> FALSE, filter |-> f]
Fail == [err |-> TRUE]

\* parseSubstringFilter keeping the empty segments between two "*"
parseSubstringFilter_keepsEmptyAny(attr, value) ==
    LET parts == Split(value, "*")
        n == Len(parts)
        mid == [i \in 1..(IF n > 2 THEN n - 2 ELSE 0) |-> parts[i + 1]]
    IN  IF n = 0 THEN Fail
        ELSE Ok([Filter(FilterSubstring) EXCEPT
                   !.Attr = ToLower(attr),
                   !.Initial = parts[1],
                   !.Final = IF n > 1 THEN parts[n] ELSE <<>>,
                   !.Any = mid])

parseSubstringFilter(attr, value) ==
    LET parts == Split(value, "*")
        n == Len(parts)
        mid == [i \in 1..(IF n > 2 THEN n - 2 ELSE 0) |-> parts[i + 1]]
    IN  IF n = 0 THEN Fail
        ELSE Ok([Filter(FilterSubstring) EXCEPT
                   !.Attr = ToLower(attr),
                   !.Initial = parts[1],
                   !.Final = IF n > 1 THEN parts[n] ELSE <<>>,
                   !.Any = SelectSeq(mid, LAMBDA p : p # <<>>)])

\* parseItem keeping the attribute name as it is written
parseItem_attrAsWritten(s) ==
    IF ~Contains(s, "=") THEN Fail
    ELSE LET i == CHOOSE k \in 1..Len(s) :
                      s[k] = "=" /\ \A m \in 1..(k - 1) : s[m] # "="
             attr == SubSeq(s, 1, i - 1)
             value == SubSeq(s, i + 1, Len(s))
             opAttr == SubSeq(s, 1, i - 2)
         IN  IF i > 1 /\ s[i - 1] = "~"
             THEN Ok([Filter(FilterApprox) EXCEPT !.Attr = opAttr, !.Value = value])
             ELSE IF i > 1 /\ s[i - 1] = ">"
             THEN Ok([Filter(FilterGreaterOrEqual) EXCEPT !.Attr = opAttr, !.Value = value])
             ELSE IF i > 1 /\ s[i - 1] = "<"
             THEN Ok([Filter(FilterLessOrEqual) EXCEPT !.Attr = opAttr, !.Value = value])
             ELSE IF value = <<"*">>
             THEN Ok([Filter(FilterPresent) EXCEPT !.Attr = attr])
             ELSE IF Contains(value, "*")
             THEN parseSubstringFilter(attr, value)
             ELSE Ok([Filter(FilterEqual) EXCEPT !.Attr = attr, !.Value = value])

parseItem(s) ==
    IF ~Contains(s, "=") THEN Fail
    ELSE LET i == CHOOSE k \in 1..Len(s) :
                      s[k] = "=" /\ \A m \in 1..(k - 1) : s[m] # "="
             attr == SubSeq(s, 1, i - 1)
             value == SubSeq(s, i + 1, Len(s))
             opAttr == ToLower(SubSeq(s, 1, i - 2))
         IN  IF i > 1 /\ s[i - 1] = "~"
             THEN Ok([Filter(FilterApprox) EXCEPT !.Attr = opAttr, !.Value = value])
             ELSE IF i > 1 /\ s[i - 1] = ">"
             THEN Ok([Filter(FilterGreaterOrEqual) EXCEPT !.Attr = opAttr, !.Value = value])
             ELSE IF i > 1 /\ s[i - 1] = "<"
             THEN Ok([Filter(FilterLessOrEqual) EXCEPT !.Attr = opAttr, !.Value = value])
             ELSE IF value = <<"*">>
             THEN Ok([Filter(FilterPresent) EXCEPT !.Attr = ToLower(attr)])
             ELSE IF Contains(value, "*")
             THEN parseSubstringFilter(attr, value)
             ELSE Ok([Filter(FilterEqual) EXCEPT !.Attr = ToLower(attr), !.Value = value])

\* The scan of parseFilterList for the ")" that closes the "(" at s[1]:
\* its 1-based position, or 0 when the text ends first (depth # 0)
RECURSIVE scanEnd(_, _, _)
scanEnd(s, i, depth) ==
    IF i > Len(s) THEN 0
    ELSE IF s[i] = "(" THEN scanEnd(s, i + 1, depth + 1)
    ELSE IF s[i] = ")"
         THEN IF depth - 1 = 0 THEN i ELSE scanEnd(s, i + 1, depth - 1)
    ELSE scanEnd(s, i + 1, depth)

RECURSIVE ParseFilter(_), parseFilterComp(_), parseFilterList(_, _, _)

ParseFilter(filterStr) ==
    LET s == TrimSpace(filterStr)
    IN  IF Len(s) = 0 THEN Fail
        ELSE IF s[1] # "(" \/ s[Len(s)] # ")" THEN Fail
        ELSE parseFilterComp(SubSeq(s, 2, Len(s) - 1))

parseFilterComp(s) ==
    IF Len(s) = 0 THEN Fail
    ELSE IF s[1] = "&" THEN parseFilterList(Tail(s), FilterAnd, <<>>)
    ELSE IF s[1] = "|" THEN parseFilterList(Tail(s), FilterOr, <<>>)
    ELSE IF s[1] = "!"
         THEN LET child == ParseFilter(Tail(s))
              IN  IF child.err THEN Fail
                  ELSE Ok([Filter(FilterNot) EXCEPT !.Children = <<child.filter>>])
    ELSE parseItem(s)

\* children: the filter.Children collected by the loop so far
parseFilterList(s, filterType, children) ==
    IF Len(s) > 0
    THEN IF s[1] # "(" THEN Fail
         ELSE LET end == scanEnd(s, 1, 0)
              IN  IF end = 0 THEN Fail
                  ELSE LET child == ParseFilter(SubSeq(s, 1, end))
                       IN  IF child.err THEN Fail
                           ELSE parseFilterList(SubSeq(s, end + 1, Len(s)), filterType,
                                                Append(children, child.filter))
    ELSE IF Len(children) = 0 THEN Fail
    ELSE Ok([Filter(filterType) EXCEPT !.Children = children])

(***************************************************************************)
(* filter.go: the attribute evaluator                                      *)
(***************************************************************************)
\* The characters of the model in the order of their byte values, for the
\* byte-wise string comparison of Go's >= and <=
ByteOrder ==
    <<"\n", " ", "!", "&", "(", ")", "*", "+", ",", "-", ".",
      "0", "1", "2", "3", "4", "5", "6", "7", "8", "9", "<", "=", ">", "?", "@">>
    \o UpperCase \o <<"[", "]", "^">> \o LowerCase \o <<"{", "|", "}", "~">>

Byte(c) == CHOOSE i \in DOMAIN ByteOrder : ByteOrder[i] = c

\* s <= t in Go's string order
RECURSIVE StringLessEq(_, _)
StringLessEq(s, t) ==
    IF s = <<>> THEN TRUE
    ELSE IF t = <<>> THEN FALSE
    ELSE IF Head(s) # Head(t) THEN Byte(Head(s)) < Byte(Head(t))
    ELSE StringLessEq(Tail(s), Tail(t))

\* The loop over the any segments of matchSubstring
RECURSIVE matchAny(_, _)
matchAny(value, any) ==
    IF any = <<>> THEN TRUE
    ELSE LET part == ToLower(Head(any))
             idx == Index(value, part)
         IN  IF idx = -1 THEN FALSE
             ELSE matchAny(SubSeq(value, idx + Len(part) + 1, Len(value)), Tail(any))

\* matchSubstring testing the final segment on the whole value
matchSubstring_finalOnWhole(value, initial, any, final) ==
    LET v0 == ToLower(value)
        ini == ToLower(initial)
        fin == ToLower(final)
        v1 == IF ini # <<>> THEN SubSeq(v0, Len(ini) + 1, Len(v0)) ELSE v0
        v2 == IF fin # <<>> THEN SubSeq(v1, 1, Len(v1) - Len(fin)) ELSE v1
    IN  IF ini # <<>> /\ ~HasPrefix(v0, ini) THEN FALSE
        ELSE IF fin # <<>> /\ ~HasSuffix(v0, fin) THEN FALSE
        ELSE matchAny(v2, any)

matchSubstring(value, initial, any, final) ==
    LET v0 == ToLower(value)
        ini == ToLower(initial)
        fin == ToLower(final)
        v1 == IF ini # <<>> THEN SubSeq(v0, Len(ini) + 1, Len(v0)) ELSE v0
        v2 == IF fin # <<>> THEN SubSeq(v1, 1, Len(v1) - Len(fin)) ELSE v1
    IN  IF ini # <<>> /\ ~HasPrefix(v0, ini) THEN FALSE
        ELSE IF fin # <<>> /\ ~HasSuffix(v1, fin) THEN FALSE
        ELSE matchAny(v2, any)

\* leafMatch comparing the values of Equal and Approx letter by letter
leafMatch_caseSensitive(filter, attrs) ==
    LET ok == filter.Attr \in DOMAIN attrs
        val == attrs[filter.Attr]
    IN  CASE filter.Type = FilterEqual -> ok /\ val = filter.Value
          [] filter.Type = FilterApprox -> ok /\ val = filter.Value
          [] filter.Type = FilterGreaterOrEqual ->
                 ok /\ StringLessEq(ToLower(filter.Value), ToLower(val))
          [] filter.Type = FilterLessOrEqual ->
                 ok /\ StringLessEq(ToLower(val), ToLower(filter.Value))
          [] filter.Type = FilterPresent -> ok
          [] filter.Type = FilterSubstring ->
                 ok /\ matchSubstring(val, filter.Initial, filter.Any, filter.Final)
          [] OTHER -> FALSE

\* leafMatch reading a missing attribute as the empty string
leafMatch_missingAsEmpty(filter, attrs) ==
    LET ok == filter.Attr \in DOMAIN attrs
        val == IF ok THEN attrs[filter.Attr] ELSE <<>>
    IN  CASE filter.Type = FilterEqual -> EqualFold(val, filter.Value)
          [] filter.Type = FilterApprox -> EqualFold(val, filter.Value)
          [] filter.Type = FilterGreaterOrEqual ->
                 StringLessEq(ToLower(filter.Value), ToLower(val))
          [] filter.Type = FilterLessOrEqual ->
                 StringLessEq(ToLower(val), ToLower(filter.Value))
          [] filter.Type = FilterPresent -> ok
          [] filter.Type = FilterSubstring ->
                 matchSubstring(val, filter.Initial, filter.Any, filter.Final)
          [] OTHER -> FALSE

\* The leaf cases of matchFilterInternal
leafMatch(filter, attrs) ==
    LET ok == filter.Attr \in DOMAIN attrs
        val == attrs[filter.Attr]
    IN  CASE filter.Type = FilterEqual -> ok /\ EqualFold(val, filter.Value)
          [] filter.Type = FilterApprox -> ok /\ EqualFold(val, filter.Value)
          [] filter.Type = FilterGreaterOrEqual ->
                 ok /\ StringLessEq(ToLower(filter.Value), ToLower(val))
          [] filter.Type = FilterLessOrEqual ->
                 ok /\ StringLessEq(ToLower(val), ToLower(filter.Value))
          [] filter.Type = FilterPresent -> ok
          [] filter.Type = FilterSubstring ->
                 ok /\ matchSubstring(val, filter.Initial, filter.Any, filter.Final)
          [] OTHER -> FALSE

\* attrs: a map whose keys are already lower-case
RECURSIVE matchFilterInternal(_, _)

\* andMatch returning true as soon as one child is true
andMatch_anyChild(filter, attrs) ==
    \E i \in DOMAIN filter.Children :
        matchFilterInternal(filter.Children[i], attrs)

\* The case FilterAnd of matchFilterInternal
andMatch(filter, attrs) ==
    \A i \in DOMAIN filter.Children :
        matchFilterInternal(filter.Children[i], attrs)

matchFilterInternal(filter, attrs) ==
    CASE filter.Type = FilterAnd -> andMatch(filter, attrs)
      [] filter.Type = FilterOr ->
             \E i \in DOMAIN filter.Children :
                 matchFilterInternal(filter.Children[i], attrs)
      [] filter.Type = FilterNot ->
             IF Len(filter.Children) = 0 THEN TRUE
             ELSE ~matchFilterInternal(filter.Children[1], attrs)
      [] OTHER -> leafMatch(filter, attrs)

\* The maps the normalisation loop of MatchFilter can build: Go ranges over
\* a map in an unspecified order, so of the keys that fold to one lower-case
\* key any one can be written last and keep its value
normalizedAttrs(attrs) ==
    LET keys == {ToLower(k) : k \in DOMAIN attrs}
    IN  {n \in [keys -> {attrs[k] : k \in DOMAIN attrs}] :
            \A lk \in keys : \E k \in DOMAIN attrs : ToLower(k) = lk /\ n[lk] = attrs[k]}

\* The results a call of MatchFilter can return
MatchFilter(filter, attrs) ==
    {matchFilterInternal(filter, n) : n \in normalizedAttrs(attrs)}

(***************************************************************************)
(* rule_engine.go: the structural comparator                               *)
(***************************************************************************)
\* A part of the regular expression between two "|": the characters match
\* themselves and "*" (compiled to ".*") matches a run without line feeds
RECURSIVE regexMatch(_, _)
regexMatch(p, s) ==
    IF p = <<>> THEN s = <<>>
    ELSE IF Head(p) = "*"
         THEN \E k \in 0..Len(s) :
                  /\ \A i \in 1..k : s[i] # "\n"
                  /\ regexMatch(Tail(p), SubSeq(s, k + 1, Len(s)))
    ELSE s # <<>> /\ Head(s) = Head(p) /\ regexMatch(Tail(p), Tail(s))

\* wildcardMatch without the lower-casing of str
wildcardMatch_strNotLowered(pattern, str) ==
    LET alts == Split(ToLower(pattern), "|")
        n == Len(alts)
    IN  \E k \in 1..n : \E i \in 1..(Len(str) + 1) : \E j \in (i - 1)..Len(str) :
            /\ k = 1 => i = 1
            /\ k = n => j = Len(str)
            /\ regexMatch(alts[k], SubSeq(str, i, j))

\* regexp.MatchString("^" + translated pattern + "$", str): the escaped
\* characters are literals; "|" is not escaped and separates alternatives, of
\* which the first carries the "^" and the last the "$"
wildcardMatch(pattern, str) ==
    LET alts == Split(ToLower(pattern), "|")
        s == ToLower(str)
        n == Len(alts)
    IN  \E k \in 1..n : \E i \in 1..(Len(s) + 1) : \E j \in (i - 1)..Len(s) :
            /\ k = 1 => i = 1
            /\ k = n => j = Len(s)
            /\ regexMatch(alts[k], SubSeq(s, i, j))

\* substringMatch comparing as many any segments as the rule has, whatever
\* the number of the request's
substringMatch_anyPrefix(rule, req) ==
    /\ EqualFold(rule.Attr, req.Attr)
    /\ rule.Initial # <<>> => EqualFold(rule.Initial, req.Initial)
    /\ rule.Final # <<>> => EqualFold(rule.Final, req.Final)
    /\ Len(rule.Any) > 0 =>
           /\ Len(rule.Any) <= Len(req.Any)
           /\ \A i \in DOMAIN rule.Any : EqualFold(rule.Any[i], req.Any[i])

\* The case FilterSubstring of filtersMatch
substringMatch(rule, req) ==
    /\ EqualFold(rule.Attr, req.Attr)
    /\ rule.Initial # <<>> => EqualFold(rule.Initial, req.Initial)
    /\ rule.Final # <<>> => EqualFold(rule.Final, req.Final)
    /\ Len(rule.Any) > 0 =>
           /\ Len(rule.Any) = Len(req.Any)
           /\ \A i \in DOMAIN rule.Any : EqualFold(rule.Any[i], req.Any[i])

RECURSIVE filtersMatch(_, _)

\* differentTypesMatch looking at an And request before an Or rule
differentTypesMatch_requestFirst(rule, req) ==
    IF req.Type = FilterAnd
    THEN \E j \in DOMAIN req.Children : filtersMatch(rule, req.Children[j])
    ELSE IF rule.Type = FilterOr
    THEN \E i \in DOMAIN rule.Children : filtersMatch(rule.Children[i], req)
    ELSE FALSE

\* The branch rule.Type != req.Type of filtersMatch
differentTypesMatch(rule, req) ==
    IF rule.Type = FilterOr
    THEN \E i \in DOMAIN rule.Children : filtersMatch(rule.Children[i], req)
    ELSE IF req.Type = FilterAnd
    THEN \E j \in DOMAIN req.Children : filtersMatch(rule, req.Children[j])
    ELSE FALSE

\* combinatorMatch asking for as many request children as rule children
combinatorMatch_sameCount(rule, req) ==
    /\ Len(rule.Children) = Len(req.Children)
    /\ \A i \in DOMAIN rule.Children : \E j \in DOMAIN req.Children :
           filtersMatch(rule.Children[i], req.Children[j])

\* combinatorMatch without the comparison of the child counts
combinatorMatch_noCount(rule, req) ==
    \A i \in DOMAIN rule.Children : \E j \in DOMAIN req.Children :
        filtersMatch(rule.Children[i], req.Children[j])

\* combinatorMatch comparing the children position by position
combinatorMatch_positional(rule, req) ==
    /\ Len(rule.Children) <= Len(req.Children)
    /\ \A i \in DOMAIN rule.Children :
           filtersMatch(rule.Children[i], req.Children[i])

\* The case FilterAnd, FilterOr of filtersMatch
combinatorMatch(rule, req) ==
    /\ Len(rule.Children) <= Len(req.Children)
    /\ \A i \in DOMAIN rule.Children : \E j \in DOMAIN req.Children :
           filtersMatch(rule.Children[i], req.Children[j])

filtersMatch(rule, req) ==
    IF rule.Type # req.Type
    THEN differentTypesMatch(rule, req)
    ELSE CASE rule.Type \in {FilterAnd, FilterOr} -> combinatorMatch(rule, req)
           [] rule.Type = FilterNot ->
                  IF Len(rule.Children) = 0 \/ Len(req.Children) = 0
                  THEN Len(rule.Children) = Len(req.Children)
                  ELSE filtersMatch(rule.Children[1], req.Children[1])
           [] rule.Type \in {FilterEqual, FilterApprox,
                             FilterGreaterOrEqual, FilterLessOrEqual} ->
                  /\ EqualFold(rule.Attr, req.Attr)
                  /\ IF Contains(rule.Value, "*")
                     THEN wildcardMatch(rule.Value, req.Value)
                     ELSE EqualFold(rule.Value, req.Value)
           [] rule.Type = FilterPresent -> EqualFold(rule.Attr, req.Attr)
           [] rule.Type = FilterSubstring -> substringMatch(rule, req)
           [] OTHER -> FALSE

\* matchRuleFilter taking a rule filter that does not parse for a match
matchRuleFilter_ruleErrMatches(ruleFilter, reqFilter) ==
    LET ruleF == ParseFilter(ruleFilter)
        reqF == ParseFilter(reqFilter)
    IN  IF ruleF.err THEN TRUE
        ELSE IF reqF.err THEN FALSE
        ELSE filtersMatch(ruleF.filter, reqF.filter)

matchRuleFilter(ruleFilter, reqFilter) ==
    LET ruleF == ParseFilter(ruleFilter)
        reqF == ParseFilter(reqFilter)
    IN  IF ruleF.err THEN FALSE
        ELSE IF reqF.err THEN FALSE
        ELSE filtersMatch(ruleF.filter, reqF.filter)

(***************************************************************************)
(* rule_engine.go: the rule dispatcher                                     *)
(***************************************************************************)
ScopeBase == 0
ScopeOne == 1
ScopeSub == 2

\* ParseScope comparing the text without lower-casing it
ParseScope_caseSensitive(s) ==
    IF s = <<"b","a","s","e">> THEN ScopeBase
    ELSE IF s = <<"o","n","e">> THEN ScopeOne
    ELSE ScopeSub

ParseScope(s) ==
    LET l == ToLower(s)
    IN  IF l = <<"b","a","s","e">> THEN ScopeBase
        ELSE IF l = <<"o","n","e">> THEN ScopeOne
        ELSE IF l = <<"s","u","b">> THEN ScopeSub
        ELSE ScopeSub

\* sortSlice with the comparison of the less function turned around
sortSlice_ascending(rules) ==
    LET n == Len(rules)
        perms == {p \in [1..n -> 1..n] :
                     /\ \A i, j \in 1..n : i # j => p[i] # p[j]
                     /\ \A i, j \in 1..n :
                            i < j => ~(rules[p[j]].Priority < rules[p[i]].Priority)}
    IN  {[i \in 1..n |-> rules[p[i]]] : p \in perms}

\* The orders sort.Slice can leave the copy in: every arrangement of the
\* input in which no rule stands before one of higher priority. sort.Slice
\* does not promise to keep equal elements in their original order.
sortSlice(rules) ==
    LET n == Len(rules)
        perms == {p \in [1..n -> 1..n] :
                     /\ \A i, j \in 1..n : i # j => p[i] # p[j]
                     /\ \A i, j \in 1..n :
                            i < j => ~(rules[p[j]].Priority > rules[p[i]].Priority)}
    IN  {[i \in 1..n |-> rules[p[i]]] : p \in perms}

\* The engines NewRuleEngine can return for the slice rules
NewRuleEngine(rules) == {[rules |-> sorted] : sorted \in sortSlice(rules)}

\* argAfterNewRuleEngine for a sort that ran on the caller's slice itself
argAfterNewRuleEngine_sortedInPlace(rules, e) == e.rules

\* The caller's slice after NewRuleEngine(rules) has returned the engine e:
\* the sort ran on sortedRules, which make and copy gave an array of its
\* own, so no element of the caller's slice was written
argAfterNewRuleEngine(rules, e) == rules

\* *Rule return values
NilRule == [nil |-> TRUE]
RulePtr(r) == [nil |-> FALSE, rule |-> r]

\* findFrom with the base DN compared as a prefix of the request's
RECURSIVE findFrom_prefixBaseDN(_, _, _)
findFrom_prefixBaseDN(rules, i, req) ==
    IF i > Len(rules) THEN NilRule
    ELSE LET rule == rules[i]
         IN  IF rule.BaseDN # <<>>
                  /\ ~HasPrefix(ToLower(req.BaseDN), ToLower(rule.BaseDN))
             THEN findFrom_prefixBaseDN(rules, i + 1, req)
             ELSE IF rule.Scope # <<>> /\ ParseScope(rule.Scope) # req.Scope
             THEN findFrom_prefixBaseDN(rules, i + 1, req)
             ELSE IF ~matchRuleFilter(rule.Filter, req.Filter)
             THEN findFrom_prefixBaseDN(rules, i + 1, req)
             ELSE RulePtr(rule)

\* The loop of FindMatchingRule from index i on
RECURSIVE findFrom(_, _, _)
findFrom(rules, i, req) ==
    IF i > Len(rules) THEN NilRule
    ELSE LET rule == rules[i]
         IN  IF rule.BaseDN # <<>> /\ ~EqualFold(rule.BaseDN, req.BaseDN)
             THEN findFrom(rules, i + 1, req)
             ELSE IF rule.Scope # <<>> /\ ParseScope(rule.Scope) # req.Scope
             THEN findFrom(rules, i + 1, req)
             ELSE IF ~matchRuleFilter(rule.Filter, req.Filter)
             THEN findFrom(rules, i + 1, req)
             ELSE RulePtr(rule)

FindMatchingRule(e, req) == findFrom(e.rules, 1, req)

(***************************************************************************)
(* ldap_server.go: the fixture evaluator and the search handler            *)
(***************************************************************************)
UniversalFilter ==
    <<"(","o","b","j","e","c","t","C","l","a","s","s","=","*",")">>

SearchFingerprint ==
    <<"s","e","a","r","c","h","F","i","n","g","e","r","p","r","i","n","t">>

KeyCN == <<"c","n">>

KeyMember == <<"m","e","m","b","e","r">>

buildFilter(attr, value) ==
    IF attr = <<>> \/ attr = SearchFingerprint THEN UniversalFilter
    ELSE <<"(">> \o attr \o <<"=">> \o value \o <<")">>

\* userAttrs without the identity field under the key cn
userAttrs_noCN(user) == [k \in DOMAIN user.Attrs |-> user.Attrs[k]]

\* The map filterUsers builds for one user: cn first, then the user's own
\* attributes, which overwrite it when the user has a key cn
userAttrs(user) ==
    [k \in {KeyCN} \cup DOMAIN user.Attrs |->
        IF k \in DOMAIN user.Attrs THEN user.Attrs[k] ELSE user.CN]

\* The results the loop of filterUsers can give for a parsed filter: each
\* user is kept iff its call of MatchFilter returns true
selectUsers(users, filter) ==
    LET keeps == {keep \in [DOMAIN users -> BOOLEAN] :
                     \A i \in DOMAIN users :
                         keep[i] \in MatchFilter(filter, userAttrs(users[i]))}
        pick(keep) ==
            LET F[i \in 0..Len(users)] ==
                    IF i = 0 THEN <<>>
                    ELSE IF keep[i] THEN Append(F[i - 1], users[i]) ELSE F[i - 1]
            IN  F[Len(users)]
    IN  {pick(keep) : keep \in keeps}

\* filterUsers returning no record when the filter text does not parse
filterUsers_failClosed(users, filterStr) ==
    IF filterStr = UniversalFilter \/ filterStr = <<>> THEN {users}
    ELSE LET parsed == ParseFilter(filterStr)
         IN  IF parsed.err THEN {<<>>}
             ELSE selectUsers(users, parsed.filter)

\* The results a call of filterUsers can return
filterUsers(users, filterStr) ==
    IF filterStr = UniversalFilter \/ filterStr = <<>> THEN {users}
    ELSE LET parsed == ParseFilter(filterStr)
         IN  IF parsed.err THEN {users}
             ELSE selectUsers(users, parsed.filter)

\* findMatchingEntries passing the matched rule's users through filterUsers
findMatchingEntries_filtersResponse(mock, req, filter) ==
    LET searchReq == [BaseDN |-> req.BaseDN, Scope |-> req.Scope, Filter |-> filter]
        found == IF Len(mock.Rules) > 0
                 THEN {FindMatchingRule(e, searchReq) : e \in NewRuleEngine(mock.Rules)}
                 ELSE {NilRule}
        fallback == {[users |-> us, groups |-> <<>>, rule |-> NilRule] :
                        us \in filterUsers(mock.Users, filter)}
    IN  UNION {IF r.nil THEN fallback
               ELSE {[users |-> us,
                      groups |-> r.rule.Response.Groups,
                      rule |-> r] : us \in filterUsers(r.rule.Response.Users, filter)} :
               r \in found}

\* The (users, groups, matched rule) triples findMatchingEntries can return
findMatchingEntries(mock, req, filter) ==
    LET searchReq == [BaseDN |-> req.BaseDN, Scope |-> req.Scope, Filter |-> filter]
        found == IF Len(mock.Rules) > 0
                 THEN {FindMatchingRule(e, searchReq) : e \in NewRuleEngine(mock.Rules)}
                 ELSE {NilRule}
        fallback == {[users |-> us, groups |-> <<>>, rule |-> NilRule] :
                        us \in filterUsers(mock.Users, filter)}
    IN  UNION {IF r.nil THEN fallback
               ELSE {[users |-> r.rule.Response.Users,
                      groups |-> r.rule.Response.Groups,
                      rule |-> r]} : r \in found}

(***************************************************************************)
(* request_log.go: the request logger                                      *)
(***************************************************************************)
\* The zero LDAPRequestLog the buffer is made of. Timestamp and RequestID
\* (the wall clock and a fresh UUID) are left out of the entries.
ZeroRequestLog ==
    [Type |-> <<>>, BaseDN |-> <<>>, Scope |-> <<>>, Filter |-> <<>>,
     MatchedRule |-> [nil |-> TRUE],
     Response |-> [ReturnedDNs |-> <<>>, Count |-> 0]]

DefaultRequestLogCapacity == 1000

NewInMemoryRequestLogger(capacity) ==
    LET c == IF capacity <= 0 THEN DefaultRequestLogCapacity ELSE capacity
    IN  [buffer |-> [i \in 1..c |-> ZeroRequestLog],
         head |-> 0, count |-> 0, capacity |-> c]

\* Log writing over the oldest entry of a full buffer without moving head
Log_headStays(l, req) ==
    IF l.capacity = 0 THEN l
    ELSE IF l.count < l.capacity
    THEN [l EXCEPT !.buffer[((l.head + l.count) % l.capacity) + 1] = req,
                   !.count = l.count + 1]
    ELSE [l EXCEPT !.buffer[l.head + 1] = req]

\* The logger after Log(req); buffer index k of the code is k + 1 here
Log(l, req) ==
    IF l.capacity = 0 THEN l
    ELSE IF l.count < l.capacity
    THEN [l EXCEPT !.buffer[((l.head + l.count) % l.capacity) + 1] = req,
                   !.count = l.count + 1]
    ELSE [l EXCEPT !.buffer[l.head + 1] = req,
                   !.head = (l.head + 1) % l.capacity]

List(l) ==
    [i \in 1..l.count |->
        l.buffer[((l.head + l.count - 1 - (i - 1) + l.capacity) % l.capacity) + 1]]

Clear(l) == [l EXCEPT !.head = 0, !.count = 0]

scopeString(s) ==
    IF s = ScopeBase THEN <<"b","a","s","e">>
    ELSE IF s = ScopeOne THEN <<"o","n","e">>
    ELSE <<"s","u","b">>

(***************************************************************************)
(* Bounds and the inputs drawn from them                                   *)
(***************************************************************************)
MaxRules == 2
MaxChildren == 2
MaxValLen == 2
MaxUsers == 2
LogCapacity == 1
MaxLogs == 3

RECURSIVE Cat(_)
Cat(texts) == IF texts = <<>> THEN <<>> ELSE Head(texts) \o Cat(Tail(texts))

SeqsUpTo(S, lo, hi) == UNION {[1..n -> S] : n \in lo..hi}

EmptyMap == <<>>

NoCall == [fn |-> "none"]

NoSearch == [ran |-> FALSE]

\* ---- the rule dispatcher's inputs
GoodFilter == <<"(","c","=","j",")">>
BadFilter == <<"(","c","=","j">>
OtherFilter == <<"(","m","=","*",")">>
DnX == <<"d","c","=","x">>
ScopeTextOne == <<"O","n","e">>

Digits == <<"1","2","3","4","5","6","7","8","9">>

NoResponse == [Users |-> <<>>, Groups |-> <<>>]

RuleShapes ==
    [Filter : {GoodFilter, BadFilter}, BaseDN : {<<>>, DnX},
     Scope : {<<>>, ScopeTextOne}, Priority : {0, 1}]

\* The i-th rule of a list carries the identifier i
MkRules(shapes) ==
    [i \in DOMAIN shapes |->
        [ID |-> <<Digits[i]>>, Name |-> <<"r", Digits[i]>>,
         Filter |-> shapes[i].Filter, BaseDN |-> shapes[i].BaseDN,
         Scope |-> shapes[i].Scope, Priority |-> shapes[i].Priority,
         Response |-> NoResponse]]

RuleLists == {MkRules(sh) : sh \in SeqsUpTo(RuleShapes, 0, MaxRules)}

SearchRequests ==
    [BaseDN : {<<"D","C","=","X">>, <<"d","c","=","x","y">>, <<>>},
     Scope : {ScopeOne, ScopeSub},
     Filter : {<<"(","C","=","J",")">>, OtherFilter, BadFilter}]

(***************************************************************************)
(* The rule dispatcher as a state machine: a rule list is handed to        *)
(* NewRuleEngine and the engine then serves one FindMatchingRule call, as  *)
(* in findMatchingEntries                                                  *)
(***************************************************************************)
InitDispatch ==
    /\ usersMock = [Users |-> <<>>, Rules |-> <<>>]
    /\ logger = NewInMemoryRequestLogger(LogCapacity)
    /\ search = NoSearch
    /\ call \in {[fn |-> "rules", rules |-> rl] : rl \in RuleLists}

CallNewRuleEngine ==
    /\ call.fn = "rules"
    /\ \E e \in NewRuleEngine(call.rules) :
           call' = [fn |-> "NewRuleEngine", input |-> call.rules,
                    rules |-> argAfterNewRuleEngine(call.rules, e), engine |-> e]
    /\ UNCHANGED <<usersMock, logger, search>>

CallFindMatchingRule ==
    /\ call.fn = "NewRuleEngine"
    /\ \E req \in SearchRequests :
           call' = [fn |-> "FindMatchingRule", rules |-> call.rules,
                    engine |-> call.engine, req |-> req,
                    found |-> FindMatchingRule(call.engine, req)]
    /\ UNCHANGED <<usersMock, logger, search>>

NextDispatch == CallNewRuleEngine \/ CallFindMatchingRule

SpecDispatch == InitDispatch /\ [][NextDispatch]_vars

\* The three checks of the dispatcher, stated on one rule and one request
BaseDNPasses(rule, req) ==
    \/ rule.BaseDN = <<>>
    \/ /\ Len(rule.BaseDN) = Len(req.BaseDN)
       /\ \A i \in DOMAIN rule.BaseDN :
              ToLowerChar(rule.BaseDN[i]) = ToLowerChar(req.BaseDN[i])

ScopePasses(rule, req) ==
    \/ rule.Scope = <<>>
    \/ ParseScope(rule.Scope) = req.Scope

FilterPasses(rule, req) ==
    /\ ~ParseFilter(rule.Filter).err
    /\ ~ParseFilter(req.Filter).err
    /\ filtersMatch(ParseFilter(rule.Filter).filter, ParseFilter(req.Filter).filter)

Passes(rule, req) ==
    BaseDNPasses(rule, req) /\ ScopePasses(rule, req) /\ FilterPasses(rule, req)

Dispatched == call.fn = "FindMatchingRule"

\* C1: FindMatchingRule returns a rule only if that rule passes the base-DN,
\* scope and filter checks for the request and no rule of strictly higher
\* priority passes them; it returns nil exactly when no rule passes.
C1_HighestPassingRule ==
    Dispatched =>
        /\ call.found.nil <=>
               ~\E i \in DOMAIN call.rules : Passes(call.rules[i], call.req)
        /\ ~call.found.nil =>
               /\ \E i \in DOMAIN call.rules : call.rules[i] = call.found.rule
               /\ Passes(call.found.rule, call.req)
               /\ \A j \in DOMAIN call.rules :
                      call.rules[j].Priority > call.found.rule.Priority
                          => ~Passes(call.rules[j], call.req)

\* A rule was returned although a rule of lower priority passes as well,
\* and another time nil was returned for a non-empty list
C1_Witness ==
    /\ Dispatched
    /\ ~call.found.nil
    /\ \E j \in DOMAIN call.rules :
           /\ call.rules[j].Priority < call.found.rule.Priority
           /\ Passes(call.rules[j], call.req)
           /\ j < CHOOSE i \in DOMAIN call.rules : call.rules[i] = call.found.rule

\* C2: among the rules of equal priority that match the request,
\* FindMatchingRule returns the one declared first.
C2_DeclaredFirstWins ==
    (Dispatched /\ ~call.found.nil) =>
        \A j \in DOMAIN call.rules :
            (/\ call.rules[j].Priority = call.found.rule.Priority
             /\ Passes(call.rules[j], call.req))
                => \E i \in 1..j : call.rules[i] = call.found.rule

\* C9: FindMatchingRule never fails on bad filter text: a rule whose filter
\* does not parse is skipped without stopping the rules after it, and a
\* request whose filter does not parse matches no rule.
C9_BadFilterIsNonMatch ==
    Dispatched =>
        /\ call.found = NilRule \/ \E i \in DOMAIN call.rules :
                                      call.found = RulePtr(call.rules[i])
        /\ ParseFilter(call.req.Filter).err => call.found.nil
        /\ ~call.found.nil => ~ParseFilter(call.found.rule.Filter).err
        /\ (\E i \in DOMAIN call.rules : Passes(call.rules[i], call.req))
               => ~call.found.nil

\* A rule with unparsable filter text stands first in the engine and the
\* rule after it is returned
C9_Witness ==
    /\ Dispatched
    /\ Len(call.engine.rules) > 1
    /\ ParseFilter(call.engine.rules[1].Filter).err
    /\ call.engine.rules[1].Priority > call.engine.rules[2].Priority
    /\ call.found = RulePtr(call.engine.rules[2])

\* A request with unparsable filter text got nil from a non-empty list
C9_WitnessBadRequest ==
    /\ Dispatched
    /\ ParseFilter(call.req.Filter).err
    /\ Len(call.rules) > 0
    /\ call.found.nil

\* C10: a rule with a non-empty BaseDN is returned only for requests whose
\* BaseDN equals it as a whole string ignoring letter case; a rule with an
\* empty BaseDN is not restricted by the request's BaseDN.
C10_BaseDNWholeStringFold ==
    Dispatched =>
        /\ (~call.found.nil /\ call.found.rule.BaseDN # <<>>) =>
               /\ Len(call.found.rule.BaseDN) = Len(call.req.BaseDN)
               /\ \A i \in DOMAIN call.req.BaseDN :
                      ToLowerChar(call.found.rule.BaseDN[i])
                          = ToLowerChar(call.req.BaseDN[i])
        /\ (\E i \in DOMAIN call.rules :
                /\ call.rules[i].BaseDN = <<>>
                /\ ScopePasses(call.rules[i], call.req)
                /\ FilterPasses(call.rules[i], call.req))
               => ~call.found.nil

\* A rule with base DN dc=x was returned for the request base DN DC=X
C10_Witness ==
    /\ Dispatched
    /\ ~call.found.nil
    /\ call.found.rule.BaseDN # <<>>
    /\ call.found.rule.BaseDN # call.req.BaseDN

(***************************************************************************)
(* The structural comparator as a state machine: matchRuleFilter is        *)
(* applied to a pair of filter texts, and filtersMatch is applied again    *)
(* after the request's And has been given one more child                   *)
(***************************************************************************)
SmallLeaves ==
    {<<"(","c","=","j",")">>, <<"(","C","=","J",")">>,
     <<"(","m","=","*",")">>, <<"(","c","=","j","*",")">>}

Combos(op) ==
    {<<"(", op>> \o Cat(kids) \o <<")">> :
        kids \in SeqsUpTo(SmallLeaves, 1, MaxChildren)}

NotTexts == {<<"(", "!">> \o l \o <<")">> : l \in SmallLeaves}

NestedTexts ==
    {<<"(","&","(","&","(","c","=","j",")",")",")">>,
     <<"(","|","(","&","(","c","=","j",")",")","(","m","=","*",")",")">>,
     <<"(","&","(","|","(","c","=","j",")","(","m","=","*",")",")","(","c","=","j",")",")">>,
     <<"(","!","(","&","(","c","=","j",")",")",")">>,
     <<"(","!","(","!","(","c","=","j",")",")",")">>}

ExampleRule == <<"(","&","(","c","n","=","J","o","h","n",")",")">>

ExampleRequest ==
    <<"(","&","(","c","n","=","J","o","h","n",")","(","m","a","i","l","=","j","o","h","n","@","e","x","a","m","p","l","e",".","c","o","m",")",")">>

PairTexts ==
    SmallLeaves \cup Combos("&") \cup Combos("|") \cup NotTexts
        \cup NestedTexts \cup {ExampleRule, ExampleRequest, BadFilter}

ValueChars == {"j", "J", "*", ".", "|"}

Operators == {<<"=">>, <<"~","=">>, <<">","=">>, <<"<","=">>}

RichLeaves ==
    {<<"(">> \o a \o op \o v \o <<")">> :
        a \in {<<"c">>, <<"C">>}, op \in Operators,
        v \in SeqsUpTo(ValueChars, 0, MaxValLen)}

OddTexts ==
    {<<" ","(","c","=","j",")"," ">>,
     <<"(","c","=","(","j",")">>,
     <<"(","=","j",")">>,
     <<"(","c","=","=",")">>,
     <<"(","c","~","=","\n","*",")">>,
     <<"(","c","=","j","*","J","*","*",".",")">>,
     <<"(","&","(","c","~","=","J","*","|",")","(","!","(","c",">","=","*",")",")",")">>}

ReflexTexts ==
    RichLeaves \cup {<<"(", "!">> \o l \o <<")">> : l \in RichLeaves} \cup OddTexts

MatchPairs == (PairTexts \X PairTexts) \cup {<<t, t>> : t \in ReflexTexts}

ExtraChildren ==
    {<<"(","m","=","*",")">>, <<"(","c","=","j",")">>,
     <<"(","&","(","c","=","j",")",")">>}

\* The And node whose only child is f
AndOf(f) == [Filter(FilterAnd) EXCEPT !.Children = <<f>>]

\* The node f with one more child appended
WithChild(f, child) == [f EXCEPT !.Children = Append(f.Children, child)]

InitMatch ==
    /\ usersMock = [Users |-> <<>>, Rules |-> <<>>]
    /\ logger = NewInMemoryRequestLogger(LogCapacity)
    /\ search = NoSearch
    /\ call \in {[fn |-> "texts", rule |-> p[1], req |-> p[2]] : p \in MatchPairs}

CallMatchRuleFilter ==
    /\ call.fn = "texts"
    /\ call' = [fn |-> "matchRuleFilter", rule |-> call.rule, req |-> call.req,
                result |-> matchRuleFilter(call.rule, call.req)]
    /\ UNCHANGED <<usersMock, logger, search>>

\* After a match on an And request: the same rule, bare and wrapped in an
\* And, against the request with one more child
CallFiltersMatchExtended ==
    /\ call.fn = "matchRuleFilter"
    /\ call.result
    /\ ParseFilter(call.req).filter.Type = FilterAnd
    /\ \E extra \in ExtraChildren :
           LET rule == ParseFilter(call.rule).filter
               req2 == WithChild(ParseFilter(call.req).filter, ParseFilter(extra).filter)
           IN  call' = [fn |-> "extended", rule |-> call.rule, req |-> call.req,
                        extra |-> extra, result |-> call.result,
                        bare |-> filtersMatch(rule, req2),
                        wrapped |-> filtersMatch(AndOf(rule), req2)]
    /\ UNCHANGED <<usersMock, logger, search>>

NextMatch == CallMatchRuleFilter \/ CallFiltersMatchExtended

SpecMatch == InitMatch /\ [][NextMatch]_vars

Matched == call.fn = "matchRuleFilter"

BothParse == ~ParseFilter(call.rule).err /\ ~ParseFilter(call.req).err

RuleTree == ParseFilter(call.rule).filter

ReqTree == ParseFilter(call.req).filter

\* C3: when rule and request are both And (or both Or), filtersMatch is
\* true iff the rule has no more children than the request and every rule
\* child matches at least one request child; (&(cn=John)) matches
\* (&(cn=John)(mail=john@example.com)) and the reverse does not.
C3_CombinatorSubset ==
    (Matched /\ BothParse) =>
        /\ (RuleTree.Type = ReqTree.Type /\ RuleTree.Type \in {FilterAnd, FilterOr}) =>
               (call.result <=>
                   /\ Len(RuleTree.Children) <= Len(ReqTree.Children)
                   /\ \A i \in DOMAIN RuleTree.Children :
                          \E j \in DOMAIN ReqTree.Children :
                              filtersMatch(RuleTree.Children[i], ReqTree.Children[j]))
        /\ (call.rule = ExampleRule /\ call.req = ExampleRequest) => call.result
        /\ (call.rule = ExampleRequest /\ call.req = ExampleRule) => ~call.result

\* Two children of an And rule are both matched by the first child of an
\* And request whose second child matches neither, and the rule matches
C3_Witness ==
    /\ Matched /\ BothParse
    /\ RuleTree.Type = FilterAnd /\ ReqTree.Type = FilterAnd
    /\ Len(RuleTree.Children) = 2 /\ Len(ReqTree.Children) = 2
    /\ RuleTree.Children[1] # RuleTree.Children[2]
    /\ \A i \in 1..2 :
           /\ filtersMatch(RuleTree.Children[i], ReqTree.Children[1])
           /\ ~filtersMatch(RuleTree.Children[i], ReqTree.Children[2])
    /\ call.result

\* C4: matchRuleFilter(t, t) is true for every filter text t that
\* ParseFilter accepts.
C4_Reflexive ==
    (Matched /\ call.rule = call.req /\ ~ParseFilter(call.rule).err) => call.result

\* An Approx value with a wildcard, a regex metacharacter and an upper-case
\* letter was compared with itself
C4_Witness ==
    /\ Matched /\ call.rule = call.req /\ call.result
    /\ RuleTree.Type = FilterApprox
    /\ Contains(RuleTree.Value, "*")
    /\ Contains(RuleTree.Value, "J")

\* A Not node over a Substring node was compared with itself
C4_WitnessSubstring ==
    /\ Matched /\ call.rule = call.req /\ call.result
    /\ RuleTree.Type = FilterNot
    /\ RuleTree.Children[1].Type = FilterSubstring

Extended == call.fn = "extended"

\* C5 as stated: if filtersMatch(rule, req) is true and req2 is req with one
\* more child appended to its And, filtersMatch(And(rule), req2) is true.
C5_WrappedRuleStillMatches ==
    (Extended /\ call.result) => call.wrapped

\* C5 amended: the same for a rule that is not itself an And or an Or node.
C5_WrappedLeafRuleStillMatches ==
    (Extended /\ call.result /\ RuleTree.Type \notin {FilterAnd, FilterOr})
        => call.wrapped

\* A leaf rule matched an And request through one of its children, and
\* wrapped in an And it matches the request extended by a child it does not
\* match
C5_Witness ==
    /\ Extended /\ call.result /\ call.wrapped
    /\ RuleTree.Type \notin {FilterAnd, FilterOr, FilterNot}
    /\ ReqTree.Type = FilterAnd
    /\ ~filtersMatch(RuleTree, ParseFilter(call.extra).filter)

(***************************************************************************)
(* The fixture evaluator as a state machine: filterUsers is applied to a   *)
(* list of user records and a filter text                                  *)
(***************************************************************************)
UserJ == [CN |-> <<"j">>, Attrs |-> (<<"m">> :> <<"x">>)]

\* a user whose attributes have the key cn themselves
UserK == [CN |-> <<"k">>, Attrs |-> (<<"M">> :> <<"X">>) @@ (KeyCN :> <<"j">>)]

\* a user whose attribute CN folds to the key cn of its identity field
UserQ == [CN |-> <<"J">>, Attrs |-> (<<"C","N">> :> <<"q">>)]

\* a user without attributes
UserN == [CN |-> <<"j","o">>, Attrs |-> EmptyMap]

FixtureUsers == {UserJ, UserK, UserQ, UserN}

UserLists == SeqsUpTo(FixtureUsers, 0, MaxUsers)

FixtureFilters ==
    {<<>>, UniversalFilter, <<" ">>, BadFilter,
     <<"(","c","n","=","j",")">>,
     <<"(","C","N","=","J",")">>,
     <<"(","c","n","=","j","*",")">>,
     <<"(","m","=","*",")">>,
     <<"(","!","(","m","=","x",")",")">>,
     <<"(","&","(","c","n","=","j",")","(","m","=","x",")",")">>,
     <<"(","|","(","c","n","=","k",")","(","m","=","x",")",")">>,
     <<"(","c","n",">","=","k",")">>,
     <<"(","c","n","<","=","j",")">>,
     <<"(","m","~","=","X",")">>,
     <<" ","(","c","n","=","j",")"," ">>,
     <<"(","o","b","j","e","c","t","c","l","a","s","s","=","*",")">>,
     <<"c","n","=","j">>,
     <<"(","&",")">>,
     <<"(","c","n","=","q",")">>}

InitFixture ==
    /\ usersMock = [Users |-> <<>>, Rules |-> <<>>]
    /\ logger = NewInMemoryRequestLogger(LogCapacity)
    /\ search = NoSearch
    /\ call \in {[fn |-> "records", users |-> us, filterStr |-> f] :
                    us \in UserLists, f \in FixtureFilters}

CallFilterUsers ==
    /\ call.fn = "records"
    /\ \E r \in filterUsers(call.users, call.filterStr) :
           call' = [fn |-> "filterUsers", users |-> call.users,
                    filterStr |-> call.filterStr, result |-> r]
    /\ UNCHANGED <<usersMock, logger, search>>

NextFixture == CallFilterUsers

SpecFixture == InitFixture /\ [][NextFixture]_vars

Filtered == call.fn = "filterUsers"

PassThrough ==
    \/ call.filterStr = <<>>
    \/ call.filterStr = UniversalFilter
    \/ ParseFilter(call.filterStr).err

\* C7: filterUsers returns its input records unchanged whenever the filter
\* text is empty, is exactly (objectClass=*) or fails to parse.
C7_FailOpen ==
    (Filtered /\ PassThrough) => call.result = call.users

\* A filter text that is neither empty nor universal failed to parse on a
\* non-empty list, and every record came back
C7_Witness ==
    /\ Filtered
    /\ call.filterStr \notin {<<>>, UniversalFilter}
    /\ ParseFilter(call.filterStr).err
    /\ Len(call.users) > 0
    /\ call.result = call.users

\* The users of list us that keep marks, in their order
Kept(us, keep) ==
    LET F[i \in 0..Len(us)] ==
            IF i = 0 THEN <<>>
            ELSE IF keep[i] THEN Append(F[i - 1], us[i]) ELSE F[i - 1]
    IN  F[Len(us)]

\* The record's attributes plus its CN under the key cn
RecordAttrs(u) == u.Attrs @@ (KeyCN :> u.CN)

\* C8: for filter text that parses and is not the universal filter,
\* filterUsers returns exactly the records for which MatchFilter is true on
\* the record's attributes plus its CN under the key cn, in their original
\* order and unaltered.
C8_KeepsMatchingRecords ==
    (Filtered /\ ~PassThrough) =>
        \E keep \in [DOMAIN call.users -> BOOLEAN] :
            /\ \A i \in DOMAIN call.users :
                   keep[i] \in MatchFilter(ParseFilter(call.filterStr).filter,
                                           RecordAttrs(call.users[i]))
            /\ call.result = Kept(call.users, keep)

\* Of two records the filter kept the second only, through its identity
\* field under the key cn
C8_Witness ==
    /\ Filtered /\ ~PassThrough
    /\ Len(call.users) = 2
    /\ call.result = <<call.users[2]>>
    /\ call.users[1] # call.users[2]
    /\ KeyCN \notin DOMAIN call.users[2].Attrs
    /\ ParseFilter(call.filterStr).filter.Attr = KeyCN

(***************************************************************************)
(* The LDAP server: SetMock swaps the fixture set, the search handler      *)
(* answers from the current one and logs the request                       *)
(***************************************************************************)
GroupG ==
    [CN |-> <<"g">>, Members |-> <<<<"j">>, <<"k">>>>,
     Attrs |-> (<<"d">> :> <<"e">>)]

\* a group without members
GroupH == [CN |-> <<"h">>, Members |-> <<>>, Attrs |-> EmptyMap]

FilterCnJ == <<"(","c","n","=","j",")">>

RuleA ==
    [ID |-> <<"a">>, Name |-> <<"r","a">>, Filter |-> FilterCnJ,
     BaseDN |-> <<>>, Scope |-> <<>>, Priority |-> 0,
     Response |-> [Users |-> <<UserK>>, Groups |-> <<GroupG, GroupH>>]]

RuleB ==
    [ID |-> <<"b">>, Name |-> <<"r","b">>, Filter |-> OtherFilter,
     BaseDN |-> DnX, Scope |-> <<>>, Priority |-> 1,
     Response |-> [Users |-> <<UserJ, UserN>>, Groups |-> <<>>]]

\* a rule of the priority and filter of RuleA
RuleC ==
    [ID |-> <<"c">>, Name |-> <<"r","c">>, Filter |-> FilterCnJ,
     BaseDN |-> <<>>, Scope |-> <<>>, Priority |-> 0,
     Response |-> [Users |-> <<>>, Groups |-> <<GroupH>>]]

ServerMocks ==
    [Users : {<<>>, <<UserN, UserJ, UserK>>, <<UserQ>>},
     Rules : {<<>>, <<RuleA>>, <<RuleA, RuleB>>, <<RuleC, RuleA>>}]

\* godap.LDAPSimpleSearchRequest
LDAPSearchRequests ==
    [BaseDN : {DnX}, Scope : {ScopeSub},
     FilterAttr : {<<>>, KeyCN, <<"m">>}, FilterValue : {<<"j">>, <<"*">>}]

Init ==
    /\ usersMock = [Users |-> <<>>, Rules |-> <<>>]
    /\ logger = NewInMemoryRequestLogger(LogCapacity)
    /\ search = NoSearch
    /\ call = NoCall

\* SetMock writing one field of the fixture set at a time, the other still
\* to come
SetMock_fieldByField(mock) ==
    /\ \/ usersMock' = [usersMock EXCEPT !.Users = mock.Users]
       \/ usersMock' = [usersMock EXCEPT !.Rules = mock.Rules]
    /\ UNCHANGED <<logger, search, call>>

\* SetMock holds the mutex of the server for its one assignment
SetMock(mock) ==
    /\ usersMock' = mock
    /\ UNCHANGED <<logger, search, call>>

userEntry(user) == [DN |-> user.CN, Attrs |-> user.Attrs]

groupEntry(group) ==
    [DN |-> group.CN,
     Attrs |-> IF Len(group.Members) > 0
               THEN (KeyMember :> group.Members) @@ group.Attrs
               ELSE group.Attrs]

\* The entries the handler builds from what findMatchingEntries returned:
\* the users first, then the groups
searchEntries(out) ==
    [i \in DOMAIN out.users |-> userEntry(out.users[i])]
        \o [i \in DOMAIN out.groups |-> groupEntry(out.groups[i])]

\* The log entry of a search
searchLog(req, filter, out) ==
    LET returnedDNs == [i \in DOMAIN searchEntries(out) |-> searchEntries(out)[i].DN]
    IN  [Type |-> <<"s","e","a","r","c","h">>,
         BaseDN |-> req.BaseDN,
         Scope |-> scopeString(req.Scope),
         Filter |-> filter,
         MatchedRule |->
             IF out.rule.nil THEN [nil |-> TRUE]
             ELSE [nil |-> FALSE, RuleID |-> out.rule.rule.ID,
                   RuleName |-> out.rule.rule.Name],
         Response |-> [ReturnedDNs |-> returnedDNs,
                       Count |-> Len(returnedDNs)]]

\* The search handler: search records what it was given, the fixture set it
\* read and what it returned
Search(req) ==
    LET filter == buildFilter(req.FilterAttr, req.FilterValue)
        mock == usersMock
    IN  \E out \in findMatchingEntries(mock, req, filter) :
            /\ logger' = Log(logger, searchLog(req, filter, out))
            /\ search' = [ran |-> TRUE, req |-> req, filter |-> filter,
                          mock |-> mock, rule |-> out.rule,
                          ret |-> searchEntries(out)]
    /\ UNCHANGED <<usersMock, call>>

NextSetMock == \E mock \in ServerMocks : SetMock(mock)

NextSearch == \E req \in LDAPSearchRequests : Search(req)

Next == NextSetMock \/ NextSearch

Spec == Init /\ [][Next]_vars

\* The entries of a list of records, which are kept whole: the DN is the CN
\* and every attribute of the record is an attribute of the entry
IsEntryOf(entry, record) ==
    /\ entry.DN = record.CN
    /\ \A k \in DOMAIN record.Attrs :
           k \in DOMAIN entry.Attrs /\
               (k # KeyMember => entry.Attrs[k] = record.Attrs[k])

AreEntriesOf(entries, records) ==
    /\ Len(entries) = Len(records)
    /\ \A i \in DOMAIN records : IsEntryOf(entries[i], records[i])

\* C6: when FindMatchingRule returns a rule for a search, the result is that
\* rule's response users followed by its response groups, in declared order
\* and unfiltered; when no rule matches or none is loaded, the result is
\* filterUsers(fallback users, request filter) and holds no group.
C6_RuleResponseVerbatim ==
    search.ran =>
        /\ ~search.rule.nil =>
               /\ \E i \in DOMAIN search.mock.Rules :
                      search.mock.Rules[i] = search.rule.rule
               /\ AreEntriesOf(search.ret,
                               search.rule.rule.Response.Users
                                   \o search.rule.rule.Response.Groups)
               /\ \A i \in DOMAIN search.rule.rule.Response.Users :
                      search.ret[i].Attrs = search.rule.rule.Response.Users[i].Attrs
        /\ search.rule.nil =>
               \E us \in filterUsers(search.mock.Users, search.filter) :
                   /\ AreEntriesOf(search.ret, us)
                   /\ \A i \in DOMAIN us : search.ret[i].Attrs = us[i].Attrs
        /\ Len(search.mock.Rules) = 0 => search.rule.nil

\* A rule matched and both its response users came back, the second of which
\* the request filter does not select
C6_Witness ==
    /\ search.ran
    /\ ~search.rule.nil
    /\ search.rule.rule = RuleB
    /\ Len(search.ret) = 2
    /\ search.ret[2].DN = UserN.CN
    /\ \A us \in filterUsers(RuleB.Response.Users, search.filter) : Len(us) < 2

\* A rule matched and its response user came back followed by both of the
\* rule's groups, the first with its member attribute
C6_WitnessGroups ==
    /\ search.ran
    /\ ~search.rule.nil
    /\ Len(search.ret) = 3
    /\ search.ret[1].DN = UserK.CN
    /\ search.ret[2].DN = GroupG.CN
    /\ search.ret[2].Attrs[KeyMember] = GroupG.Members
    /\ search.ret[3].DN = GroupH.CN

\* No rule of a non-empty rule list matched and the fallback users that the
\* request filter selects came back, the first of the list left out
C6_WitnessFallback ==
    /\ search.ran
    /\ search.rule.nil
    /\ Len(search.mock.Rules) > 0
    /\ Len(search.ret) = 2
    /\ Len(search.mock.Users) = 3
    /\ search.ret[1].DN = UserJ.CN

\* C26: for every rule filter and every And request that filtersMatch
\* accepts, filtersMatch also accepts the rule against the request with one
\* more child appended to its top-level And.
C26_RicherAndRequestStillMatches ==
    Extended => call.bare

\* An Or rule that matched an And request matches the request with one
\* more child
C26_Witness ==
    /\ Extended
    /\ RuleTree.Type = FilterOr
    /\ Len(ReqTree.Children) = 2
    /\ call.bare

\* An And rule with as many children as the request matches the request
\* with one more child
C26_WitnessAndRule ==
    /\ Extended
    /\ RuleTree.Type = FilterAnd
    /\ Len(RuleTree.Children) = Len(ReqTree.Children)
    /\ call.bare

(***************************************************************************)
(* The rule dispatcher on rules that differ in their scope text            *)
(***************************************************************************)
ScopeTexts ==
    {<<>>, <<"b","a","s","e">>, <<"B","a","s","e">>, <<"o","N","e">>, <<"S","U","B">>, <<"x">>, <<"b","a","s","e","s">>}

\* What each scope text of the pool stands for
ScopeMeaning ==
    (<<"b","a","s","e">> :> ScopeBase) @@ (<<"B","a","s","e">> :> ScopeBase)
        @@ (<<"o","N","e">> :> ScopeOne) @@ (<<"S","U","B">> :> ScopeSub)
        @@ (<<"x">> :> ScopeSub) @@ (<<"b","a","s","e","s">> :> ScopeSub)

ScopeRuleShapes ==
    [Filter : {GoodFilter}, BaseDN : {<<>>}, Scope : ScopeTexts, Priority : {0, 1}]

ScopeRuleLists == {MkRules(sh) : sh \in SeqsUpTo(ScopeRuleShapes, 1, 2)}

ScopeRequests ==
    [BaseDN : {DnX}, Scope : {ScopeBase, ScopeOne, ScopeSub},
     Filter : {<<"(","C","=","J",")">>}]

InitScope ==
    /\ usersMock = [Users |-> <<>>, Rules |-> <<>>]
    /\ logger = NewInMemoryRequestLogger(LogCapacity)
    /\ search = NoSearch
    /\ call \in {[fn |-> "rules", rules |-> rl] : rl \in ScopeRuleLists}

CallFindMatchingRuleScoped ==
    /\ call.fn = "NewRuleEngine"
    /\ \E req \in ScopeRequests :
           call' = [fn |-> "FindMatchingRule", rules |-> call.rules,
                    engine |-> call.engine, req |-> req,
                    found |-> FindMatchingRule(call.engine, req)]
    /\ UNCHANGED <<usersMock, logger, search>>

NextScope == CallNewRuleEngine \/ CallFindMatchingRuleScoped

SpecScope == InitScope /\ [][NextScope]_vars

\* C11: a rule with a non-empty Scope is returned only for requests whose
\* scope is the one its text stands for (base, one and sub in any letter
\* case stand for themselves, every other text for sub); a rule with an
\* empty Scope is returned for requests of every scope.
C11_ScopeNormalized ==
    Dispatched =>
        /\ (~call.found.nil /\ call.found.rule.Scope # <<>>) =>
               call.req.Scope = ScopeMeaning[call.found.rule.Scope]
        /\ \A i \in DOMAIN call.rules :
               (call.rules[i].Scope = <<>>
                    \/ call.req.Scope = ScopeMeaning[call.rules[i].Scope])
                   => ~call.found.nil

\* A rule whose scope text is base in mixed case was skipped for a request
\* of scope sub, and the rule after it, of an unknown scope text, returned
C11_Witness ==
    /\ Dispatched
    /\ Len(call.engine.rules) = 2
    /\ call.engine.rules[1].Scope = <<"B","a","s","e">>
    /\ call.engine.rules[2].Scope = <<"x">>
    /\ call.req.Scope = ScopeSub
    /\ call.found = RulePtr(call.engine.rules[2])

\* A rule without scope text was returned for a request of scope base
C11_WitnessEmptyScope ==
    /\ Dispatched
    /\ call.req.Scope = ScopeBase
    /\ ~call.found.nil
    /\ call.found.rule.Scope = <<>>

LeafAttrs == {<<>>, <<"c">>, <<"C","N">>}

LeafOps == {<<"=">>, <<"~","=">>, <<">","=">>, <<"<","=">>}

LeafValueChars == {"j", "K", "*"}

\* values with more "*" than the short ones can hold
LongValues ==
    {<<"*","j","*","K","*">>,
     <<"j","*","K","*","j","*","K">>,
     <<"*","j","*","*","K","*">>,
     <<"J","o","*","h","*","n">>,
     <<"*","*","*">>}

LeafValues == SeqsUpTo(LeafValueChars, 0, MaxValLen + 1) \cup LongValues

LeafTexts ==
    {<<"(">> \o a \o op \o v \o <<")">> :
        a \in LeafAttrs, op \in LeafOps, v \in LeafValues}

\* texts around the outer parenthesis pair, accepted and rejected
OuterTexts ==
    {<<>>,
     <<" ">>,
     <<"c","=","j">>,
     <<"(","c","=","j">>,
     <<"c","=","j",")">>,
     <<"(",")">>,
     <<"(","c","j",")">>,
     <<"(","c","=","j",")","(","m","=","k",")">>,
     <<"(","c","=","(","j",")">>,
     <<"(","c","=","j",")",")">>,
     <<"(","(","c","=","j",")">>,
     <<" ","(","c","=","j",")"," ">>,
     <<"\n","(","c","=","j",")">>,
     <<"(","c","=","j",")"," ","x">>,
     <<"(","&",")">>,
     <<"(","|",")">>,
     <<"(","!",")">>,
     <<"(","!","c","=","j",")">>,
     <<"(","&","c","=","j",")">>,
     <<"(","&","(","c","=","j",")","x",")">>,
     <<"(","&","(","c","=","j",")">>,
     <<"(","&","(","c","=","j",")","(","m","=","k",")",")">>,
     <<"(","&","(","c","=","j",")","(","m","=","k",")",")",")">>,
     <<"(","|","(","c","=","j",")",")">>,
     <<"(","|","(","c","=","j",")","(","m","=","k">>,
     <<"(","!","(","c","=","j",")",")">>,
     <<"(","!","(","c","=","j",")","(","m","=","k",")",")">>,
     <<"(","!","(","c","=","j",")","x",")">>,
     <<"(","!","(","c","=","j",")">>,
     <<"(","!","(","!","(","c","=","j",")",")",")">>,
     <<"(","&","(","!","(","c","=","j",")","(","m","=","k",")",")",")">>,
     <<"(","&","(","|","(","c","=","j",")",")","(","!","(","m","=","*",")",")",")">>,
     <<"(","&","(","(","c","=","j",")",")",")">>,
     <<"(","&","(","C","N","=","j",")","(","|","(","M","=","K","*",")",")",")">>,
     <<"(","!","(","C","n","=","*",")",")">>,
     <<"(","|","(","&","(","C",">","=","J",")","(","!","(","M","~","=","k",")",")",")","(","c","N","<","=","j",")",")">>}

ParseTexts == LeafTexts \cup OuterTexts

InitParse ==
    /\ usersMock = [Users |-> <<>>, Rules |-> <<>>]
    /\ logger = NewInMemoryRequestLogger(LogCapacity)
    /\ search = NoSearch
    /\ call \in {[fn |-> "text", text |-> t] : t \in ParseTexts}

CallParseFilter ==
    /\ call.fn = "text"
    /\ call' = [fn |-> "ParseFilter", text |-> call.text,
                result |-> ParseFilter(call.text)]
    /\ UNCHANGED <<usersMock, logger, search>>

NextParse == CallParseFilter

SpecParse == InitParse /\ [][NextParse]_vars

Parsed == call.fn = "ParseFilter"

\* The position of the ")" that closes the "(" at t[1], 0 if there is none
RECURSIVE ClosingOf(_, _, _)
ClosingOf(t, i, open) ==
    IF i > Len(t) THEN 0
    ELSE IF t[i] = "(" THEN ClosingOf(t, i + 1, open + 1)
    ELSE IF t[i] = ")" /\ open = 1 THEN i
    ELSE IF t[i] = ")" THEN ClosingOf(t, i + 1, open - 1)
    ELSE ClosingOf(t, i + 1, open)

\* t is one filter in a single outer parenthesis pair: it starts with "(",
\* ends with ")" and that ")" closes the opening "("
WrappedOnce(t) ==
    /\ Len(t) > 0
    /\ t[1] = "("
    /\ t[Len(t)] = ")"
    /\ ClosingOf(t, 1, 0) = Len(t)

\* The text handed to the nested ParseFilter call of a Not filter
IsNotText(t) == Len(t) > 2 /\ t[1] = "(" /\ t[Len(t)] = ")" /\ t[2] = "!"

NotChildText(t) == SubSeq(t, 3, Len(t) - 1)

\* C13: ParseFilter returns an error for every text that is empty or is
\* not one filter wrapped in a single outer parenthesis pair, at the top
\* level (white space around the text set aside) and in the nested call on
\* the child of a Not.
C13_NotWrappedIsError ==
    Parsed =>
        LET t == TrimSpace(call.text)
        IN  /\ ~WrappedOnce(t) => call.result.err
            /\ (IsNotText(t) /\ ~WrappedOnce(TrimSpace(NotChildText(t))))
                   => call.result.err

\* The parts of a leaf text ( attr = v ): the attribute before the first "="
\* and the value after it
LeafInner(text) == LET t == TrimSpace(text) IN SubSeq(t, 2, Len(t) - 1)

LeafEq(text) ==
    CHOOSE k \in 1..Len(LeafInner(text)) :
        /\ LeafInner(text)[k] = "="
        /\ \A m \in 1..(k - 1) : LeafInner(text)[m] # "="

LeafAttr(text) == SubSeq(LeafInner(text), 1, LeafEq(text) - 1)

LeafValue(text) ==
    SubSeq(LeafInner(text), LeafEq(text) + 1, Len(LeafInner(text)))

\* text is a leaf with the plain operator "="
IsPlainLeaf(text) ==
    /\ WrappedOnce(TrimSpace(text))
    /\ Contains(LeafInner(text), "=")
    /\ LeafInner(text)[1] \notin {"&", "|", "!"}
    /\ LeafAttr(text) = <<>>
           \/ LeafAttr(text)[Len(LeafAttr(text))] \notin {"~", ">", "<"}

\* The positions of "*" in v
Stars(v) == {k \in 1..Len(v) : v[k] = "*"}

\* The non-empty segments of v between consecutive "*", in their order
RECURSIVE SegmentsFrom(_, _)
SegmentsFrom(v, p) ==
    IF \A q \in Stars(v) : q <= p THEN <<>>
    ELSE LET q == CHOOSE x \in Stars(v) :
                      x > p /\ \A y \in Stars(v) : y > p => x <= y
         IN  IF q > p + 1
             THEN <<SubSeq(v, p + 1, q - 1)>> \o SegmentsFrom(v, q)
             ELSE SegmentsFrom(v, q)

FirstStar(v) == CHOOSE x \in Stars(v) : \A y \in Stars(v) : x <= y

LastStar(v) == CHOOSE x \in Stars(v) : \A y \in Stars(v) : y <= x

\* C14: for a leaf (attr=v), ParseFilter returns Present if v is exactly
\* "*"; if v holds "*" otherwise, a Substring node whose initial is the text
\* before the first "*", whose final is the text after the last "*" (an
\* empty one is absent) and whose any list is the non-empty segments
\* between consecutive "*" in their order; and Equal with the value
\* verbatim if v holds no "*".
C14_LeafKinds ==
    (Parsed /\ IsPlainLeaf(call.text)) =>
        LET v == LeafValue(call.text)
            f == call.result.filter
        IN  /\ ~call.result.err
            /\ f.Attr = ToLower(LeafAttr(call.text))
            /\ f.Children = <<>>
            /\ v = <<"*">> =>
                   f = [Filter(FilterPresent) EXCEPT !.Attr = f.Attr]
            /\ (v # <<"*">> /\ Stars(v) # {}) =>
                   /\ f.Type = FilterSubstring
                   /\ f.Value = <<>>
                   /\ f.Initial = SubSeq(v, 1, FirstStar(v) - 1)
                   /\ f.Final = SubSeq(v, LastStar(v) + 1, Len(v))
                   /\ f.Any = SegmentsFrom(v, FirstStar(v))
            /\ Stars(v) = {} =>
                   f = [Filter(FilterEqual) EXCEPT !.Attr = f.Attr, !.Value = v]

\* A value with an empty first segment, two segments between its "*", one
\* of them after an empty one, and an empty last segment was parsed
C14_Witness ==
    /\ Parsed
    /\ IsPlainLeaf(call.text)
    /\ LeafValue(call.text) = <<"*","j","*","*","K","*">>
    /\ call.result.filter.Type = FilterSubstring
    /\ call.result.filter.Initial = <<>>
    /\ call.result.filter.Any = <<<<"j">>, <<"K">>>>
    /\ call.result.filter.Final = <<>>

\* The value "*" alone gave Present, and a value without "*" gave Equal
C14_WitnessPresent ==
    /\ Parsed
    /\ IsPlainLeaf(call.text)
    /\ LeafValue(call.text) = <<"*">>
    /\ call.result.filter.Type = FilterPresent

C14_WitnessEqual ==
    /\ Parsed
    /\ IsPlainLeaf(call.text)
    /\ LeafValue(call.text) = <<"j", "K">>
    /\ call.result.filter.Type = FilterEqual
    /\ call.result.filter.Value = <<"j", "K">>

(***************************************************************************)
(* The attribute evaluator as a state machine: MatchFilter is applied to   *)
(* a parsed filter and an attribute map                                    *)
(***************************************************************************)
EvalAttrs == {<<"c","n">>, <<"C","N">>, <<"z","z">>}

EvalValues == SeqsUpTo({"j", "J", "k", "*"}, 0, MaxValLen)

EvalLeaves ==
    {<<"(">> \o a \o op \o v \o <<")">> :
        a \in EvalAttrs, op \in LeafOps, v \in EvalValues}
    \cup {<<"(","c","n","=","j","o","h","n",")">>, <<"(","c","n","=","J","O","H","N",")">>}

EvalChildren ==
    {<<"(","c","n","=","j",")">>,
     <<"(","C","N","=","K",")">>,
     <<"(","z","z","=","*",")">>,
     <<"(","m","=","j",")">>}

EvalCombos ==
    {<<"(", op>> \o Cat(kids) \o <<")">> :
        op \in {"&", "|"}, kids \in SeqsUpTo(EvalChildren, 1, MaxChildren)}

EvalNots ==
    {<<"(", "!">> \o l \o <<")">> :
        l \in EvalChildren \cup
              {<<"(","z","z","=",")">>,
     <<"(","z","z","~","=",")">>,
     <<"(","z","z",">","=",")">>,
     <<"(","z","z","<","=","j",")">>,
     <<"(","z","z","=","j","*",")">>,
     <<"(","c","n","=","*",")">>,
     <<"(","&","(","c","n","=","j",")","(","m","=","j",")",")">>,
     <<"(","|","(","z","z","=","*",")","(","m","=","j",")",")">>,
     <<"(","!","(","c","n","=","j",")",")">>}}

EvalTexts == EvalLeaves \cup EvalCombos \cup EvalNots

EvalMaps ==
    {EmptyMap,
     (<<"c","n">> :> <<"j">>),
     (<<"C","N">> :> <<"J">>),
     (<<"C","n">> :> <<"j","k">>),
     (<<"c","n">> :> <<>>),
     (<<"m">> :> <<"j">>),
     (<<"c","n">> :> <<"K","j">>) @@ (<<"m">> :> <<"k">>),
     (<<"C","N">> :> <<"J","O","H","N">>),
     (<<"c","n">> :> <<"j","o","h","n">>),
     (<<"C","N">> :> <<"j">>) @@ (<<"c","n">> :> <<"k">>)}

InitEval ==
    /\ usersMock = [Users |-> <<>>, Rules |-> <<>>]
    /\ logger = NewInMemoryRequestLogger(LogCapacity)
    /\ search = NoSearch
    /\ call \in {[fn |-> "eval", text |-> t, attrs |-> a] :
                    t \in EvalTexts, a \in EvalMaps}

CallMatchFilter ==
    /\ call.fn = "eval"
    /\ ~ParseFilter(call.text).err
    /\ \E result \in MatchFilter(ParseFilter(call.text).filter, call.attrs) :
           call' = [fn |-> "MatchFilter", text |-> call.text,
                    filter |-> ParseFilter(call.text).filter,
                    attrs |-> call.attrs, result |-> result]
    /\ UNCHANGED <<usersMock, logger, search>>

NextEval == CallMatchFilter

SpecEval == InitEval /\ [][NextEval]_vars

Evaluated == call.fn = "MatchFilter"

\* No two keys of the map differ only in letter case
NoCollision(attrs) ==
    \A k1, k2 \in DOMAIN attrs : ToLower(k1) = ToLower(k2) => k1 = k2

\* The map with every key and every value in lower case
LowerMap(attrs) ==
    [lk \in {ToLower(k) : k \in DOMAIN attrs} |->
        ToLower(attrs[CHOOSE k \in DOMAIN attrs : ToLower(k) = lk])]

\* C15: MatchFilter ignores the letter case of attribute names, in the
\* filter and in the map, and of values: on a map without two keys that
\* differ only in case, the result is the result for the filter text and
\* the map written in lower case throughout.
C15_CaseInsensitive ==
    (Evaluated /\ NoCollision(call.attrs)) =>
        MatchFilter(ParseFilter(ToLower(call.text)).filter, LowerMap(call.attrs))
            = {call.result}

\* (cn=john) matched the map with key CN and value JOHN
C15_Witness ==
    /\ Evaluated
    /\ call.text = <<"(","c","n","=","j","o","h","n",")">>
    /\ call.attrs = (<<"C","N">> :> <<"J","O","H","N">>)
    /\ call.result = TRUE

\* (cn>=j) matched the value Kj, which is below j byte by byte
C15_WitnessOrder ==
    /\ Evaluated
    /\ call.filter.Type = FilterGreaterOrEqual
    /\ call.filter.Value = <<"j">>
    /\ <<"c","n">> \in DOMAIN call.attrs
    /\ call.attrs[<<"c","n">>] = <<"K","j">>
    /\ call.result = TRUE

\* C16: an And node is true iff every child is true, an Or node iff at
\* least one child is true and a Not node iff its single child is false,
\* the children evaluated on the same attribute set.
C16_Connectives ==
    Evaluated =>
        \E n \in normalizedAttrs(call.attrs) :
            LET kids == call.filter.Children
                kid(i) == matchFilterInternal(kids[i], n)
            IN  /\ call.filter.Type = FilterAnd =>
                       (call.result <=> \A i \in DOMAIN kids : kid(i))
                /\ call.filter.Type = FilterOr =>
                       (call.result <=> \E i \in DOMAIN kids : kid(i))
                /\ call.filter.Type = FilterNot =>
                       (Len(kids) = 1 /\ (call.result <=> ~kid(1)))

\* An And with one true and one false child was false
C16_Witness ==
    /\ Evaluated
    /\ call.filter.Type = FilterAnd
    /\ Len(call.filter.Children) = 2
    /\ NoCollision(call.attrs)
    /\ MatchFilter(call.filter.Children[1], call.attrs) = {TRUE}
    /\ MatchFilter(call.filter.Children[2], call.attrs) = {FALSE}
    /\ call.result = FALSE

\* An Or with a false and a true child was true, and a Not of a true
\* child was false
C16_WitnessOr ==
    /\ Evaluated
    /\ call.filter.Type = FilterOr
    /\ Len(call.filter.Children) = 2
    /\ NoCollision(call.attrs)
    /\ MatchFilter(call.filter.Children[1], call.attrs) = {FALSE}
    /\ MatchFilter(call.filter.Children[2], call.attrs) = {TRUE}
    /\ call.result = TRUE

C16_WitnessNot ==
    /\ Evaluated
    /\ call.filter.Type = FilterNot
    /\ NoCollision(call.attrs)
    /\ MatchFilter(call.filter.Children[1], call.attrs) = {TRUE}
    /\ call.result = FALSE

LeafTypes ==
    {FilterEqual, FilterApprox, FilterGreaterOrEqual, FilterLessOrEqual,
     FilterPresent, FilterSubstring}

\* No key of the map is the attribute a in any letter case
Absent(a, attrs) == \A k \in DOMAIN attrs : ToLower(k) # ToLower(a)

\* C17: MatchFilter returns a truth value for every filter and map; a leaf
\* on an attribute absent from the map is false whatever its kind, so a
\* Not around such a leaf is true; Present is true for an attribute that
\* exists with an empty value.
C17_MissingAttributeIsFalse ==
    Evaluated =>
        /\ call.result \in BOOLEAN
        /\ (call.filter.Type \in LeafTypes /\ Absent(call.filter.Attr, call.attrs))
               => call.result = FALSE
        /\ (/\ call.filter.Type = FilterNot
            /\ call.filter.Children[1].Type \in LeafTypes
            /\ Absent(call.filter.Children[1].Attr, call.attrs))
               => call.result = TRUE
        /\ (/\ call.filter.Type = FilterPresent
            /\ \E k \in DOMAIN call.attrs :
                   ToLower(k) = call.filter.Attr /\ call.attrs[k] = <<>>
            /\ NoCollision(call.attrs))
               => call.result = TRUE

\* A LessOrEqual leaf and an Equal leaf with an empty value, both on an
\* attribute the map does not have, were false
C17_Witness ==
    /\ Evaluated
    /\ call.filter.Type = FilterLessOrEqual
    /\ Absent(call.filter.Attr, call.attrs)
    /\ call.attrs # EmptyMap
    /\ call.result = FALSE

C17_WitnessEmptyValue ==
    /\ Evaluated
    /\ call.filter.Type = FilterEqual
    /\ call.filter.Value = <<>>
    /\ Absent(call.filter.Attr, call.attrs)
    /\ call.result = FALSE

\* A Not around a GreaterOrEqual leaf on a missing attribute was true
C17_WitnessNot ==
    /\ Evaluated
    /\ call.filter.Type = FilterNot
    /\ call.filter.Children[1].Type = FilterGreaterOrEqual
    /\ Absent(call.filter.Children[1].Attr, call.attrs)
    /\ call.result = TRUE

\* Present was true for an attribute with an empty value
C17_WitnessPresent ==
    /\ Evaluated
    /\ call.filter.Type = FilterPresent
    /\ call.filter.Attr \in DOMAIN call.attrs
    /\ call.attrs[call.filter.Attr] = <<>>
    /\ call.result = TRUE

(***************************************************************************)
(* wildcardMatch as a state machine: it is applied to a pattern and a      *)
(* string                                                                  *)
(***************************************************************************)
PatternChars == {"j", "J", "*", ".", "|"}

StrChars == {"j", "J", ".", "|", "\n"}

WildcardPatterns ==
    SeqsUpTo(PatternChars, 0, MaxValLen)
        \cup {<<"j","o","*">>, <<"*","|","j">>, <<"j",".","*">>, <<"j","*","j","*">>}

WildcardStrs ==
    SeqsUpTo(StrChars, 0, MaxValLen)
        \cup {<<"J","o","h","n">>, <<"k">>, <<"j",".","k">>, <<"x","j","|","j">>}

InitWildcard ==
    /\ usersMock = [Users |-> <<>>, Rules |-> <<>>]
    /\ logger = NewInMemoryRequestLogger(LogCapacity)
    /\ search = NoSearch
    /\ call \in {[fn |-> "pattern", pattern |-> p, str |-> t] :
                    p \in WildcardPatterns, t \in WildcardStrs}

CallWildcardMatch ==
    /\ call.fn = "pattern"
    /\ call' = [fn |-> "wildcardMatch", pattern |-> call.pattern, str |-> call.str,
                result |-> wildcardMatch(call.pattern, call.str)]
    /\ UNCHANGED <<usersMock, logger, search>>

NextWildcard == CallWildcardMatch

SpecWildcard == InitWildcard /\ [][NextWildcard]_vars

\* s matches p in full, where "*" stands for any run of characters, the
\* empty one included, and every other character of p for itself
RECURSIVE GlobMatch(_, _)
GlobMatch(p, s) ==
    IF p = <<>> THEN s = <<>>
    ELSE IF Head(p) = "*"
         THEN \E k \in 0..Len(s) : GlobMatch(Tail(p), SubSeq(s, k + 1, Len(s)))
    ELSE s # <<>> /\ Head(s) = Head(p) /\ GlobMatch(Tail(p), Tail(s))

\* C18: wildcardMatch(pattern, str) is true iff str matches pattern in
\* full, ignoring letter case, where each "*" of the pattern matches any
\* run of characters and every other pattern character, regex
\* metacharacters included, matches only itself.
C18_AnchoredGlob ==
    call.fn = "wildcardMatch" =>
        (call.result <=> GlobMatch(ToLower(call.pattern), ToLower(call.str)))

(***************************************************************************)
(* The structural comparator on substring rules                            *)
(***************************************************************************)
\* values that hold a "*" and are not the "*" of Present
StarValues ==
    {v \in SeqsUpTo({"j", "J", "k", "*"}, 2, MaxValLen + 1) : Contains(v, "*")}
        \cup {<<"*","j","*","k","*">>,
     <<"*","*","j","*">>,
     <<"*","J","*","k">>,
     <<"j","*","k","*","j","*","k">>,
     <<"J","o","h","n","*">>,
     <<"J","a","n","e","*">>,
     <<"J","O","H","N","*">>}

SubstringRules == {<<"(","c","n","=">> \o v \o <<")">> : v \in StarValues}

SubstringRequests ==
    {<<"(","C","N","=">> \o v \o <<")">> : v \in StarValues}
        \cup {<<"(","m","=","j","*",")">>,
     <<"(","c","n","=","J","o","h","n",")">>,
     <<"(","c","n","=","j",")">>,
     <<"(","c","n","=","*",")">>,
     <<"(","c","n","~","=","j","*",")">>,
     <<"(","c","n",">","=","j","*",")">>,
     <<"(","c","n","<","=","j","*",")">>,
     <<"(","!","(","c","n","=","j","*",")",")">>,
     <<"(","|","(","c","n","=","j","*",")",")">>}

InitSegments ==
    /\ usersMock = [Users |-> <<>>, Rules |-> <<>>]
    /\ logger = NewInMemoryRequestLogger(LogCapacity)
    /\ search = NoSearch
    /\ call \in {[fn |-> "texts", rule |-> r, req |-> q] :
                    r \in SubstringRules, q \in SubstringRequests}

NextSegments == CallMatchRuleFilter

SpecSegments == InitSegments /\ [][NextSegments]_vars

\* The initial, any and final segments of the value v, which holds a "*"
InitialOf(v) == SubSeq(v, 1, FirstStar(v) - 1)

FinalOf(v) == SubSeq(v, LastStar(v) + 1, Len(v))

AnyOf(v) == SegmentsFrom(v, FirstStar(v))

SameFold(s, t) ==
    Len(s) = Len(t) /\ \A i \in DOMAIN s : ToLowerChar(s[i]) = ToLowerChar(t[i])

\* C19: for a Substring rule and a Substring request filtersMatch is true
\* iff the attributes are equal ignoring case, a non-empty rule initial
\* equals the request initial ignoring case, likewise the final, and a rule
\* with any segments meets a request with as many, equal position by
\* position; a Substring rule matches no request of another leaf kind.
C19_SubstringSegments ==
    (Matched /\ BothParse /\ RuleTree.Type = FilterSubstring) =>
        /\ ReqTree.Type = FilterSubstring =>
               LET rv == LeafValue(call.rule)
                   qv == LeafValue(call.req)
               IN  call.result <=>
                       /\ SameFold(LeafAttr(call.rule), LeafAttr(call.req))
                       /\ InitialOf(rv) # <<>> => SameFold(InitialOf(rv), InitialOf(qv))
                       /\ FinalOf(rv) # <<>> => SameFold(FinalOf(rv), FinalOf(qv))
                       /\ AnyOf(rv) # <<>> =>
                              /\ Len(AnyOf(rv)) = Len(AnyOf(qv))
                              /\ \A i \in DOMAIN AnyOf(rv) :
                                     SameFold(AnyOf(rv)[i], AnyOf(qv)[i])
        /\ (ReqTree.Type \in LeafTypes /\ ReqTree.Type # FilterSubstring) =>
               ~call.result

\* A rule matched a request whose value is another text with the same
\* segments
C19_Witness ==
    /\ Matched /\ BothParse
    /\ RuleTree.Type = FilterSubstring /\ ReqTree.Type = FilterSubstring
    /\ Len(LeafValue(call.rule)) # Len(LeafValue(call.req))
    /\ RuleTree.Any # <<>>
    /\ call.result

\* The rule (cn=John*) matched (CN=JOHN*) and neither (cn=John) nor
\* (CN=Jane*)
C19_WitnessExample ==
    /\ Matched
    /\ call.rule = <<"(","c","n","=","J","o","h","n","*",")">>
    /\ \/ call.req = <<"(","C","N","=","J","O","H","N","*",")">> /\ call.result
       \/ call.req = <<"(","c","n","=","J","o","h","n",")">> /\ ~call.result

C19_WitnessOtherValue ==
    /\ Matched
    /\ call.rule = <<"(","c","n","=","J","o","h","n","*",")">>
    /\ call.req = <<"(","C","N","=","J","a","n","e","*",")">>
    /\ ~call.result

\* A rule with one any segment did not match a request with two that
\* begin with it
C19_WitnessCount ==
    /\ Matched /\ BothParse
    /\ RuleTree.Type = FilterSubstring /\ ReqTree.Type = FilterSubstring
    /\ Len(RuleTree.Any) = 1 /\ Len(ReqTree.Any) = 2
    /\ EqualFold(RuleTree.Any[1], ReqTree.Any[1])
    /\ RuleTree.Initial = <<>> /\ RuleTree.Final = <<>>
    /\ ~call.result

(***************************************************************************)
(* A search that runs while the fixture set is swapped: the handler takes  *)
(* its steps one by one and SetMock can run between any two of them        *)
(***************************************************************************)
MockOld == [Users |-> <<UserN, UserJ, UserK>>, Rules |-> <<RuleA>>]

MockNew == [Users |-> <<UserQ>>, Rules |-> <<RuleC, RuleB>>]

NoMock == [Users |-> <<>>, Rules |-> <<>>]

\* The fixture sets that are installed as a whole
WholeMocks == {NoMock, MockOld, MockNew}

InitConcurrent ==
    /\ usersMock = NoMock
    /\ logger = NewInMemoryRequestLogger(LogCapacity)
    /\ search = [pc |-> "idle"]
    /\ call = NoCall

\* GetMock returns the fixture set under the mutex of the server
GetMock == usersMock

\* The handler is called with a request and builds the filter text
SearchBegin(req) ==
    /\ search.pc \in {"idle", "done"}
    /\ search' = [pc |-> "GetMock", req |-> req,
                  filter |-> buildFilter(req.FilterAttr, req.FilterValue)]
    /\ UNCHANGED <<usersMock, logger, call>>

SearchGetMock ==
    /\ search.pc = "GetMock"
    /\ search' = [pc |-> "findMatchingEntries", req |-> search.req,
                  filter |-> search.filter, mock |-> GetMock]
    /\ UNCHANGED <<usersMock, logger, call>>

SearchFindMatchingEntries ==
    /\ search.pc = "findMatchingEntries"
    /\ \E out \in findMatchingEntries(search.mock, search.req, search.filter) :
           search' = [pc |-> "Log", req |-> search.req, filter |-> search.filter,
                      mock |-> search.mock, out |-> out]
    /\ UNCHANGED <<usersMock, logger, call>>

\* The entries are built, the request is logged and the entries returned
SearchLogAndReturn ==
    /\ search.pc = "Log"
    /\ logger' = Log(logger, searchLog(search.req, search.filter, search.out))
    /\ search' = [pc |-> "done", req |-> search.req, filter |-> search.filter,
                  mock |-> search.mock, out |-> search.out,
                  ret |-> searchEntries(search.out)]
    /\ UNCHANGED <<usersMock, call>>

NextSearchBegin == \E req \in LDAPSearchRequests : SearchBegin(req)

NextSwap == \E mock \in WholeMocks : SetMock(mock)

NextConcurrent ==
    \/ NextSwap
    \/ NextSearchBegin
    \/ SearchGetMock
    \/ SearchFindMatchingEntries
    \/ SearchLogAndReturn

SpecConcurrent == InitConcurrent /\ [][NextConcurrent]_vars

\* C20: a search that runs concurrently with SetMock computes its whole
\* result (the matched rule, the returned users and groups and its log
\* entry) from one fixture set that was installed as a whole, never from
\* the users of one set and the rules of another.
C20_SingleSnapshot ==
    search.pc = "done" =>
        \E mock \in WholeMocks :
            \E out \in findMatchingEntries(mock, search.req, search.filter) :
                /\ search.out = out
                /\ search.ret = searchEntries(out)
                /\ List(logger)[1] = searchLog(search.req, search.filter, out)

\* A search returned the rule and the records of the set that was
\* installed when it began and has been replaced since
C20_Witness ==
    /\ search.pc = "done"
    /\ search.mock = MockOld
    /\ usersMock = MockNew
    /\ ~search.out.rule.nil
    /\ Len(search.ret) > 0
    /\ List(logger)[1].MatchedRule.RuleID = RuleA.ID

\* A search fell back to the users of the replaced set
C20_WitnessFallback ==
    /\ search.pc = "done"
    /\ search.mock = MockOld
    /\ usersMock = MockNew
    /\ search.out.rule.nil
    /\ Len(search.ret) = 2

(***************************************************************************)
(* The request logger as a state machine: Log and Clear are called on a    *)
(* logger of some capacity; call.since holds the entries logged since the  *)
(* last Clear, oldest first                                                *)
(***************************************************************************)
LogCapacities == 1..(LogCapacity + 1)

\* log entries that differ in their filter text
LogEntry(c) == [ZeroRequestLog EXCEPT !.Type = <<"s","e","a","r","c","h">>,
                                      !.Filter = <<"(", c, "=", "*", ")">>]

LogEntries == {LogEntry(c) : c \in {"a", "b", "c"}}

InitLogger ==
    /\ usersMock = [Users |-> <<>>, Rules |-> <<>>]
    /\ logger \in {NewInMemoryRequestLogger(c) : c \in LogCapacities}
    /\ search = NoSearch
    /\ call = [fn |-> "NewInMemoryRequestLogger", since |-> <<>>]

CallLog(req) ==
    /\ Len(call.since) < MaxLogs
    /\ logger' = Log(logger, req)
    /\ call' = [fn |-> "Log", since |-> Append(call.since, req)]
    /\ UNCHANGED <<usersMock, search>>

CallClear ==
    /\ logger' = Clear(logger)
    /\ call' = [fn |-> "Clear", since |-> <<>>]
    /\ UNCHANGED <<usersMock, search>>

NextCallLog == \E req \in LogEntries : CallLog(req)

NextLogger == NextCallLog \/ CallClear

SpecLogger == InitLogger /\ [][NextLogger]_vars

\* The last n entries of the sequence s at most, the newest first
NewestFirst(s, n) ==
    [i \in 1..(IF Len(s) < n THEN Len(s) ELSE n) |-> s[Len(s) - i + 1]]

\* C22: after any sequence of Log and Clear calls on a request logger of
\* capacity c, List returns exactly the entries logged since the most
\* recent Clear, newest first, limited to the c most recent ones; it is
\* empty right after Clear and never holds more than c entries.
C22_ListNewestFirst ==
    call.fn \in {"NewInMemoryRequestLogger", "Log", "Clear"} =>
        /\ List(logger) = NewestFirst(call.since, logger.capacity)
        /\ Len(List(logger)) <= logger.capacity
        /\ call.fn = "Clear" => List(logger) = <<>>

\* More entries than the logger holds were logged, the buffer has turned
\* round and List gives the newest two
C22_Witness ==
    /\ call.fn = "Log"
    /\ logger.capacity = 2
    /\ Len(call.since) = 3
    /\ call.since[1] # call.since[2] /\ call.since[2] # call.since[3]
    /\ logger.head = 1
    /\ List(logger) = <<call.since[3], call.since[2]>>

\* List is empty right after a Clear of a full logger
C22_WitnessClear ==
    /\ call.fn = "Clear"
    /\ logger.buffer[1] # ZeroRequestLog
    /\ List(logger) = <<>>

(***************************************************************************)
(* The structural comparator on rules and requests of different node types *)
(***************************************************************************)
MixedTexts ==
    PairTexts \cup
    {<<"(","&","(","|","(","c","=","j",")",")",")">>,
     <<"(","&","(","|","(","c","=","j",")","(","m","=","*",")",")","(","c","=","j",")",")">>,
     <<"(","|","(","&","(","c","=","j",")",")",")">>,
     <<"(","|","(","|","(","c","=","j",")",")",")">>,
     <<"(","&","(","!","(","c","=","j",")",")","(","m","=","*",")",")">>,
     <<"(","|","(","!","(","c","=","j",")",")","(","m","=","*",")",")">>}

InitMixed ==
    /\ usersMock = [Users |-> <<>>, Rules |-> <<>>]
    /\ logger = NewInMemoryRequestLogger(LogCapacity)
    /\ search = NoSearch
    /\ call \in {[fn |-> "texts", rule |-> r, req |-> q] :
                    r \in MixedTexts, q \in MixedTexts}

NextMixed == CallMatchRuleFilter

SpecMixed == InitMixed /\ [][NextMixed]_vars

\* C23: when the rule node and the request node have different types, an
\* Or rule matches iff some rule child matches the whole request, also
\* when the request is an And; any other rule matches an And request iff
\* the whole rule matches some request child; in every other case the
\* result is false.
C23_DifferentTypesOrder ==
    (Matched /\ BothParse /\ RuleTree.Type # ReqTree.Type) =>
        IF RuleTree.Type = FilterOr
        THEN call.result <=>
                 \E i \in DOMAIN RuleTree.Children :
                     filtersMatch(RuleTree.Children[i], ReqTree)
        ELSE IF ReqTree.Type = FilterAnd
        THEN call.result <=>
                 \E j \in DOMAIN ReqTree.Children :
                     filtersMatch(RuleTree, ReqTree.Children[j])
        ELSE ~call.result

\* An Or rule did not match an And request one of whose children the whole
\* rule matches, because none of the rule's children matches the request
C23_Witness ==
    /\ Matched /\ BothParse
    /\ RuleTree.Type = FilterOr
    /\ ReqTree.Type = FilterAnd
    /\ \E j \in DOMAIN ReqTree.Children : filtersMatch(RuleTree, ReqTree.Children[j])
    /\ ~call.result

\* A leaf rule matched an And request through the request's second child
C23_WitnessRequestChild ==
    /\ Matched /\ BothParse
    /\ RuleTree.Type = FilterEqual
    /\ ReqTree.Type = FilterAnd
    /\ Len(ReqTree.Children) = 2
    /\ ~filtersMatch(RuleTree, ReqTree.Children[1])
    /\ call.result

\* An Or rule matched a leaf request through one of its children
C23_WitnessRuleChild ==
    /\ Matched /\ BothParse
    /\ RuleTree.Type = FilterOr
    /\ ReqTree.Type = FilterPresent
    /\ call.result

(***************************************************************************)
(* matchSubstring as a state machine: it is applied to a value and the     *)
(* segments of a pattern                                                   *)
(***************************************************************************)
SegmentValues == SeqsUpTo({"j", "k", "J"}, 0, MaxValLen + 1)

EdgeSegments == {<<>>, <<"j">>, <<"j", "k">>, <<"K">>}

AnySegments ==
    {<<>>, <<<<"j">>>>, <<<<"k">>, <<"j">>>>, <<<<"J">>, <<"j">>>>}

InitSubstring ==
    /\ usersMock = [Users |-> <<>>, Rules |-> <<>>]
    /\ logger = NewInMemoryRequestLogger(LogCapacity)
    /\ search = NoSearch
    /\ call \in {[fn |-> "segments", value |-> v, initial |-> i, any |-> a, final |-> f] :
                    v \in SegmentValues, i \in EdgeSegments,
                    a \in AnySegments, f \in EdgeSegments}

CallMatchSubstring ==
    /\ call.fn = "segments"
    /\ call' = [fn |-> "matchSubstring", value |-> call.value,
                initial |-> call.initial, any |-> call.any, final |-> call.final,
                result |-> matchSubstring(call.value, call.initial, call.any, call.final)]
    /\ UNCHANGED <<usersMock, logger, search>>

NextSubstring == CallMatchSubstring

SpecSubstring == InitSubstring /\ [][NextSubstring]_vars

\* The segments segs occur in the text t in their order, each after the end
\* of the one before
RECURSIVE OccurInOrder(_, _)
OccurInOrder(t, segs) ==
    IF segs = <<>> THEN TRUE
    ELSE \E k \in 0..(Len(t) - Len(Head(segs))) :
             /\ SubSeq(t, k + 1, k + Len(Head(segs))) = Head(segs)
             /\ OccurInOrder(SubSeq(t, k + Len(Head(segs)) + 1, Len(t)), Tail(segs))

\* C24: matchSubstring, comparing case-insensitively, requires the initial
\* segment to be a prefix of the value and the final segment to be a suffix
\* of the original value, not of what remains after the prefix is removed;
\* each any segment must then be found, in order, in the text between them.
C24_FinalOnOriginalValue ==
    call.fn = "matchSubstring" =>
        LET v == ToLower(call.value)
            ini == ToLower(call.initial)
            fin == ToLower(call.final)
            any == [i \in DOMAIN call.any |-> ToLower(call.any[i])]
        IN  call.result <=>
                /\ HasPrefix(v, ini)
                /\ HasSuffix(v, fin)
                /\ OccurInOrder(SubSeq(v, Len(ini) + 1, Len(v) - Len(fin)), any)

(***************************************************************************)
(* The attribute evaluator on Substring filters: MatchFilter is applied to *)
(* the filter parsed from (cn=p) and the map with the value v for cn       *)
(***************************************************************************)
GlobPatterns ==
    {p \in SeqsUpTo({"j", "k", "J", "*"}, 2, MaxValLen + 1) : Contains(p, "*")}
        \cup {<<"j","*","k","*","j">>, <<"*","j","*","k","*">>, <<"j","*","*","j">>, <<"j","k","*","k","j">>}

GlobValues == SeqsUpTo({"j", "k", "J"}, 0, MaxValLen + 1) \cup {<<"j","k","k","j">>, <<"j","k","j">>, <<"k","j","j","k">>}

InitGlob ==
    /\ usersMock = [Users |-> <<>>, Rules |-> <<>>]
    /\ logger = NewInMemoryRequestLogger(LogCapacity)
    /\ search = NoSearch
    /\ call \in {[fn |-> "eval", text |-> <<"(","c","n","=">> \o p \o <<")">>,
                   attrs |-> (KeyCN :> v)] : p \in GlobPatterns, v \in GlobValues}

NextGlob == CallMatchFilter

SpecGlob == InitGlob /\ [][NextGlob]_vars

\* C27: for a Substring filter parsed from (attr=p) and a value v of
\* ordinary characters, MatchFilter is true iff v matches p in full
\* ignoring case, each "*" standing for any run and every other character
\* for itself, so that prefix and suffix do not overlap in v; and it agrees
\* with wildcardMatch(p, v).
C27_EvaluatorIsAnchoredGlob ==
    (Evaluated /\ call.filter.Type = FilterSubstring) =>
        LET p == LeafValue(call.text)
            v == call.attrs[KeyCN]
        IN  /\ call.result <=> GlobMatch(ToLower(p), ToLower(v))
            /\ call.result <=> wildcardMatch(p, v)

\* The value jkkj matched jk*kj
C27_Witness ==
    /\ Evaluated
    /\ LeafValue(call.text) = <<"j","k","*","k","j">>
    /\ call.attrs[KeyCN] = <<"j","k","k","j">>
    /\ call.result

\* The value jkj, which begins with jk and ends with kj, did not match jk*kj
C27_WitnessOverlap ==
    /\ Evaluated
    /\ LeafValue(call.text) = <<"j","k","*","k","j">>
    /\ call.attrs[KeyCN] = <<"j","k","j">>
    /\ ~call.result

\* A pattern with segments between its "*" matched a value in which the
\* first of them occurs twice
C27_WitnessAny ==
    /\ Evaluated
    /\ Len(call.filter.Any) = 2
    /\ call.attrs[KeyCN] = <<"k","j","j","k">>
    /\ call.result

\* The tree f is well formed
RECURSIVE WellFormed(_)
WellFormed(f) ==
    /\ f.Attr = ToLower(f.Attr)
    /\ f.Type \in {FilterAnd, FilterOr} => Len(f.Children) >= 1
    /\ f.Type = FilterNot => Len(f.Children) = 1
    /\ f.Type = FilterEqual => ~Contains(f.Value, "*")
    /\ \A i \in 1..Len(f.Children) : WellFormed(f.Children[i])

\* C25: every tree that ParseFilter returns without error is well formed:
\* each And and Or node has at least one child, each Not node exactly one,
\* every attribute name in the tree is lower-case, and the value of an
\* Equal node contains no "*".
C25_ParsedTreeWellFormed ==
    (Parsed /\ ~call.result.err) => WellFormed(call.result.filter)

\* A tree of three levels was parsed from a text with upper-case attribute
\* names
C25_Witness ==
    /\ Parsed
    /\ call.text = <<"(","|","(","&","(","C",">","=","J",")","(","!","(","M","~","=","k",")",")",")","(","c","N","<","=","j",")",")">>
    /\ ~call.result.err
    /\ call.result.filter.Type = FilterOr
    /\ Len(call.result.filter.Children) = 2
    /\ call.result.filter.Children[1].Children[2].Type = FilterNot

\* An Equal leaf was parsed from an upper-case attribute name
C25_WitnessEqual ==
    /\ Parsed
    /\ ~call.result.err
    /\ call.result.filter.Type = FilterEqual
    /\ LeafAttr(call.text) = <<"C", "N">>
    /\ call.result.filter.Attr = <<"c", "n">>

\* C28: filterUsers and MatchFilter are functions of their inputs: for
\* fixed records and filter text every call returns the same result, also
\* when the attribute map of a record has keys that differ only in letter
\* case or a key such as CN that folds to the identity key cn.
C28_FilterUsersIsFunction ==
    Filtered => filterUsers(call.users, call.filterStr) = {call.result}

(***************************************************************************)
(* mock_server.go: the HTTP server beside the LDAP server.  call holds the *)
(* state of the MockServer: lastMockYAML, the POST /mock handlers between  *)
(* their SetMock and their write of lastMockYAML, the GET /mock handler    *)
(* and the last response; loaded and previous are the arguments of the     *)
(* last SetMock and of the one before.  search is the last search of the   *)
(* fixture set that is loaded: a SetMock starts it anew.                   *)
(***************************************************************************)
MockA == [Users |-> <<UserJ>>, Rules |-> <<>>]

MockB == [Users |-> <<UserN>>, Rules |-> <<RuleA>>]

BodyA == "users: [{cn: j, attrs: {m: x}}]"

BodyB == "users: [{cn: jo}]\nrules: [{id: a, name: ra, filter: (cn=j), response: {users: [{cn: k, attrs: {M: X, cn: j}}], groups: [{cn: g, members: [j, k], attrs: {d: e}}, {cn: h}]}}]"

BodyBad == "users: {"

\* yaml.Unmarshal(data, &mock) on the bodies of the model
Unmarshal(data) ==
    IF data = BodyA THEN [err |-> FALSE, mock |-> MockA]
    ELSE IF data = BodyB THEN [err |-> FALSE, mock |-> MockB]
    ELSE [err |-> TRUE]

\* A request body: io.ReadAll returns its data or fails
PostMockRequests ==
    {[readable |-> TRUE, data |-> d] : d \in {BodyA, BodyB, BodyBad}}
        \cup {[readable |-> FALSE, data |-> ""]}

\* The handler of POST /mock taking a body it cannot decode for the empty
\* fixture set
postMockDecode_badAsEmpty(request) ==
    IF ~request.readable THEN [err |-> TRUE]
    ELSE IF Unmarshal(request.data).err THEN [err |-> FALSE, mock |-> NoMock]
    ELSE Unmarshal(request.data)

\* The handler of POST /mock up to its call of SetMock: the body is read and
\* decoded, and either can fail
postMockDecode(request) ==
    IF ~request.readable THEN [err |-> TRUE]
    ELSE Unmarshal(request.data)

HTTPSearchRequests ==
    [BaseDN : {DnX}, Scope : {ScopeSub},
     FilterAttr : {KeyCN}, FilterValue : {<<"j">>, <<"*">>}]

InitHTTP ==
    /\ usersMock = NoMock
    /\ logger = NewInMemoryRequestLogger(LogCapacity)
    /\ search = NoSearch
    /\ call = [fn |-> "MockServer", lastMockYAML |-> "", posts |-> {},
               get |-> [pc |-> "idle"], response |-> [route |-> "none"],
               loaded |-> NoMock, previous |-> NoMock]

\* A GET /mock that has read the fixture set is no longer alone
disturbed(get) == IF get.pc = "yaml" THEN [get EXCEPT !.quiet = FALSE] ELSE get

\* POST /mock: an unreadable or undecodable body is answered with 500;
\* otherwise the decoded set is installed by SetMock
PostMockBegin(request) ==
    LET decoded == postMockDecode(request)
    IN  IF decoded.err
        THEN /\ call' = [call EXCEPT !.response =
                            [route |-> "POST /mock", request |-> request,
                             status |-> 500]]
             /\ UNCHANGED <<usersMock, logger, search>>
        ELSE /\ request.data \notin call.posts
             /\ usersMock' = decoded.mock
             /\ search' = NoSearch
             /\ call' = [call EXCEPT !.posts = @ \cup {request.data},
                                     !.get = disturbed(@),
                                     !.loaded = decoded.mock,
                                     !.previous = call.loaded]
             /\ UNCHANGED logger

\* POST /mock after SetMock: the body is kept as lastMockYAML under mockMu
\* and the request is answered with 200
PostMockStore(data) ==
    /\ data \in call.posts
    /\ call' = [call EXCEPT !.lastMockYAML = data,
                            !.posts = @ \ {data},
                            !.get = disturbed(@),
                            !.response =
                                [route |-> "POST /mock",
                                 request |-> [readable |-> TRUE, data |-> data],
                                 status |-> 200]]
    /\ UNCHANGED <<usersMock, logger, search>>

\* POST /clean keeping the rules of the fixture set
PostClean_rulesStay ==
    /\ usersMock' = [usersMock EXCEPT !.Users = <<>>]
    /\ search' = NoSearch
    /\ call' = [call EXCEPT !.get = disturbed(@),
                            !.response = [route |-> "POST /clean", status |-> 200],
                            !.loaded = NoMock,
                            !.previous = call.loaded]
    /\ UNCHANGED logger

\* POST /clean: SetMock(LDAPMock{}) and nothing else
PostClean ==
    /\ usersMock' = NoMock
    /\ search' = NoSearch
    /\ call' = [call EXCEPT !.get = disturbed(@),
                            !.response = [route |-> "POST /clean", status |-> 200],
                            !.loaded = NoMock,
                            !.previous = call.loaded]
    /\ UNCHANGED logger

\* GET /mock reads the fixture set under the mutex of the LDAP server
GetMockBegin ==
    /\ call.get.pc = "idle"
    /\ call' = [call EXCEPT !.get = [pc |-> "yaml", mock |-> GetMock,
                                     quiet |-> call.posts = {}]]
    /\ UNCHANGED <<usersMock, logger, search>>

\* GET /mock reads lastMockYAML under mockMu and answers with both
GetMockRespond ==
    /\ call.get.pc = "yaml"
    /\ call' = [call EXCEPT !.get = [pc |-> "idle"],
                            !.response =
                                [route |-> "GET /mock", status |-> 200,
                                 mock |-> call.get.mock,
                                 yaml |-> call.lastMockYAML,
                                 quiescent |-> call.get.quiet /\ call.posts = {}]]
    /\ UNCHANGED <<usersMock, logger, search>>

NextPostMockBegin == \E request \in PostMockRequests : PostMockBegin(request)

NextPostMockStore == \E data \in call.posts : PostMockStore(data)

NextSearchHTTP == \E req \in HTTPSearchRequests : Search(req)

NextHTTP ==
    \/ NextPostMockBegin
    \/ NextPostMockStore
    \/ PostClean
    \/ GetMockBegin
    \/ GetMockRespond
    \/ NextSearchHTTP

SpecHTTP == InitHTTP /\ [][NextHTTP]_vars

\* The CNs of the records of a fixture set
RecordCNs(mock) ==
    {mock.Users[i].CN : i \in DOMAIN mock.Users}
        \cup UNION {{mock.Rules[r].Response.Users[i].CN :
                        i \in DOMAIN mock.Rules[r].Response.Users}
                    \cup {mock.Rules[r].Response.Groups[i].CN :
                            i \in DOMAIN mock.Rules[r].Response.Groups} :
                    r \in DOMAIN mock.Rules}

\* C21: loading replaces the fixture set wholesale: a search that starts
\* after SetMock(B) completed depends only on B, so that no user or rule of
\* a set loaded before appears in its result; after POST /clean every
\* search returns no entries until the next load.
C21_LoadReplacesWholesale ==
    search.ran =>
        /\ search.mock = call.loaded
        /\ \E out \in findMatchingEntries(call.loaded, search.req, search.filter) :
               search.ret = searchEntries(out)
        /\ \A i \in DOMAIN search.ret : search.ret[i].DN \in RecordCNs(call.loaded)
        /\ call.loaded = NoMock => search.ret = <<>>

\* A search after the load of MockB over MockA returned entries
C21_Witness ==
    /\ search.ran
    /\ call.loaded = MockB
    /\ call.previous = MockA
    /\ search.ret # <<>>

\* A search after the POST /clean that followed a load returned nothing
C21_WitnessClean ==
    /\ search.ran
    /\ call.response.route = "POST /clean"
    /\ call.previous = MockB
    /\ search.ret = <<>>

\* The outcomes of every search of the model on a fixture set
SearchOutcomes(mock) ==
    [req \in HTTPSearchRequests |->
        {searchEntries(out) :
            out \in findMatchingEntries(mock, req,
                                         buildFilter(req.FilterAttr, req.FilterValue))}]

\* C29: a POST /mock whose body cannot be read or decoded as YAML answers
\* with an error status and changes nothing: the loaded fixture set and the
\* recorded YAML text stay as they were, and later searches return what
\* they returned before the request.
C29_FailedLoadChangesNothing ==
    [][\A request \in PostMockRequests :
          (/\ ~request.readable \/ Unmarshal(request.data).err
           /\ PostMockBegin(request))
          => /\ call'.response.route = "POST /mock"
             /\ call'.response.request = request
             /\ call'.response.status >= 400
             /\ usersMock' = usersMock
             /\ call'.lastMockYAML = call.lastMockYAML
             /\ SearchOutcomes(usersMock') = SearchOutcomes(usersMock)]_vars

\* An undecodable body was answered with 500 while MockA was loaded from
\* BodyA
C29_Witness ==
    /\ call.response.route = "POST /mock"
    /\ call.response.status = 500
    /\ call.response.request.data = BodyBad
    /\ usersMock = MockA
    /\ call.lastMockYAML = BodyA
    /\ call.posts = {}

\* An unreadable body was answered with 500
C29_WitnessUnreadable ==
    /\ call.response.route = "POST /mock"
    /\ call.response.status = 500
    /\ ~call.response.request.readable
    /\ usersMock = MockB

\* The text yaml describes the fixture set mock
Describes(yaml, mock) ==
    IF yaml = "" THEN mock = NoMock
    ELSE ~Unmarshal(yaml).err /\ Unmarshal(yaml).mock = mock

\* C30: in every quiescent state reached by POST /mock and POST /clean
\* requests, sequential or overlapping, the YAML text that GET /mock
\* returns describes the same fixture set as the mock returned alongside
\* it: after a load both come from that load's body, and after /clean both
\* are empty.
C30_YAMLDescribesMock ==
    (call.response.route = "GET /mock" /\ call.response.quiescent) =>
        Describes(call.response.yaml, call.response.mock)

====
